---- MODULE Spec2Model ----
(***************************************************************************)
(* A model of avatreat's treatment-design code: the table operations of    *)
(* avatreat/utils (cardinality split, zero-variance detection, missing     *)
(* value fill, hidden dtype recovery, reindexing) and the fit pipelines of *)
(* the TreatmentDesign / FeaturePreprocessor classes that sequence them.   *)
(*                                                                         *)
(* A table (pandas DataFrame) is a sequence of columns; a column is a      *)
(* record [name, dtype, vals]; a cell is a record [t, s, n]:               *)
(*   t = "nan"   a missing entry (NaN / None / NaT)                        *)
(*   t = "str"   a text value, s its characters                            *)
(*   t = "int"   an integer n                                              *)
(*   t = "float" the float n / 2 (floats are held in halves)               *)
(*   t = "bool"  False (n = 0) or True (n = 1)                             *)
(*   t = "dt"    a timestamp                                               *)
(* DataFrames are objects: heap[r] is the content of the DataFrame object  *)
(* r, so that a copy (a new object) and an alias (the same object) differ. *)
(***************************************************************************)
EXTENDS Integers, Sequences, FiniteSets, TLC

VARIABLES heap, self, pc, input, call

vars == <<heap, self, pc, input, call>>

(***************************************************************************)
(* Bounds of the model.                                                    *)
(***************************************************************************)
\* the largest number of rows of a table
MaxRows == 3
\* the largest number of columns of a table handed to fit
MaxCols == 4

(***************************************************************************)
(* Cells.                                                                  *)
(***************************************************************************)
NaN == [t |-> "nan", s |-> <<>>, n |-> 0]
Str(chars) == [t |-> "str", s |-> chars, n |-> 0]
IntC(i) == [t |-> "int", s |-> <<>>, n |-> i]
FloatC(halves) == [t |-> "float", s |-> <<>>, n |-> halves]
BoolC(b) == [t |-> "bool", s |-> <<>>, n |-> IF b THEN 1 ELSE 0]
Timestamp == [t |-> "dt", s |-> <<>>, n |-> 0]

\* pandas isnull()
isnull(c) == c.t = "nan"

\* a rational number num / den, den > 0 (the thresholds 0.02, 0.1, ...)
Rat(num, den) == [num |-> num, den |-> den]
\* a / b <= r and a / b > r for integers a, b > 0 (true division, python 3)
DivLeq(a, b, r) == a * r.den <= r.num * b
DivGt(a, b, r) == a * r.den > r.num * b

(***************************************************************************)
(* Tables.                                                                 *)
(***************************************************************************)
Column(name, dtype, vals) == [name |-> name, dtype |-> dtype, vals |-> vals]

\* dataframe.columns.tolist()
columns(df) == [i \in DOMAIN df |-> df[i].name]
\* dataframe.shape[0]
nrows(df) == IF Len(df) = 0 THEN 0 ELSE Len(df[1].vals)
\* membership of a name in a list of names
InList(x, list) == \E i \in DOMAIN list : list[i] = x
ToSet(list) == {list[i] : i \in DOMAIN list}
\* dataframe.loc[:, feature]
loc(df, feature) == df[CHOOSE i \in DOMAIN df : df[i].name = feature]
\* Series.unique(): the distinct entries, a missing entry counting as one
unique(vals) == {vals[i] : i \in DOMAIN vals}
\* dataframe.select_dtypes(include=dtypes).columns.tolist()
select_dtypes(df, dtypes) ==
    LET keep == SelectSeq(df, LAMBDA c : c.dtype \in dtypes)
    IN  columns(keep)

OBJECT_DTYPES == {"object"}
INT_DTYPES == {"int64"}
FLOAT_DTYPES == {"float64"}
NUMERICAL_DTYPES == INT_DTYPES \cup FLOAT_DTYPES
DATETIME_DTYPES == {"datetime64"}
TIMEDELTAS == {"timedelta64"}
CATEGORICAL_DTYPES == {"category"}
DATETIMETZ_DTYPES == {"datetimetz"}
BOOL_DTYPES == {"bool"}

RECURSIVE SumOver(_, _)
\* sum(d.values()) for a dict d with key set keys
SumOver(d, keys) ==
    IF keys = {} THEN 0
    ELSE LET k == CHOOSE x \in keys : TRUE
         IN  d[k] + SumOver(d, keys \ {k})

(***************************************************************************)
(* Cardinality split.                                                      *)
(***************************************************************************)
\* dataframe.groupby(feature).agg({feature: "count"}): the count of rows of
\* each level; groupby drops the rows whose key is missing
groupby_count(df, feature) ==
    LET vals == loc(df, feature).vals
        keys == {v \in unique(vals) : ~isnull(v)}
    IN  [k \in keys |-> Cardinality({i \in DOMAIN vals : vals[i] = k})]

\* as rare_level_row_counts, a level at the threshold not counted as rare
rare_level_row_counts_below(df, feature, rare_level_threshold) ==
    LET gb == groupby_count(df, feature)
        rare == {k \in DOMAIN gb : gb[k] * rare_level_threshold.den
                                        < rare_level_threshold.num * nrows(df)}
    IN  [k \in rare |-> gb[k]]

\* the dict rare_level_row_counts built by the loop over zip(keys, vals)
rare_level_row_counts(df, feature, rare_level_threshold) ==
    LET gb == groupby_count(df, feature)
        rare == {k \in DOMAIN gb : DivLeq(gb[k], nrows(df), rare_level_threshold)}
    IN  [k \in rare |-> gb[k]]

\* rare_count = sum(rare_level_row_counts.values())
rare_count(df, feature, rare_level_threshold) ==
    LET d == rare_level_row_counts(df, feature, rare_level_threshold)
    IN  SumOver(d, DOMAIN d)

\* as split_feature, the second test strict (rare_percent < allowable)
split_feature_strict_elif(df, feature, rare_level_threshold, allowable_rare_percentage) ==
    IF Cardinality(unique(loc(df, feature).vals)) = nrows(df)
    THEN "high_cardinality"
    ELSE LET rc == rare_count(df, feature, rare_level_threshold)
         IN  IF DivGt(rc, nrows(df), allowable_rare_percentage)
             THEN "high_cardinality"
             ELSE IF rc * allowable_rare_percentage.den
                        < allowable_rare_percentage.num * nrows(df)
                  THEN "categorical"
                  ELSE "neither"

\* as split_feature, without the test for a column of all distinct entries
split_feature_no_shortcut(df, feature, rare_level_threshold, allowable_rare_percentage) ==
    LET rc == rare_count(df, feature, rare_level_threshold)
    IN  IF DivGt(rc, nrows(df), allowable_rare_percentage)
        THEN "high_cardinality"
        ELSE "categorical"

\* the branch one iteration of the loop over the features takes
split_feature(df, feature, rare_level_threshold, allowable_rare_percentage) ==
    IF Cardinality(unique(loc(df, feature).vals)) = nrows(df)
    THEN "high_cardinality"
    ELSE LET rc == rare_count(df, feature, rare_level_threshold)
         IN  IF DivGt(rc, nrows(df), allowable_rare_percentage)
             THEN "high_cardinality"
             ELSE IF DivLeq(rc, nrows(df), allowable_rare_percentage)
                  THEN "categorical"
                  ELSE "neither"

\* utils: find_high_cardinality_features(dataframe, object_features, ...):
\* each feature is appended to the list of the branch its iteration takes
find_high_cardinality_features(dataframe, object_features, rare_level_threshold, allowable_rare_percentage) ==
    [high_cardinality |->
        SelectSeq(object_features, LAMBDA feature :
            split_feature(dataframe, feature, rare_level_threshold,
                          allowable_rare_percentage) = "high_cardinality"),
     categorical |->
        SelectSeq(object_features, LAMBDA feature :
            split_feature(dataframe, feature, rare_level_threshold,
                          allowable_rare_percentage) = "categorical")]

\* python's None, and an attribute no statement has set yet
None == "None"
\* None where a list is expected
NoList == <<None>>
Unset == <<"unset">>
NoFrame == 0

\* a local variable: body F evaluated with the value v bound once
With(v, F(_)) == CHOOSE r \in {F(x) : x \in {v}} : TRUE

(***************************************************************************)
(* Text: a str is the sequence of its characters.                          *)
(***************************************************************************)
LowerLetters == <<"a", "b", "c", "d", "e", "f", "g", "h", "i", "j", "k", "l", "m", "n", "o", "p", "q", "r", "s", "t", "u", "v", "w", "x", "y", "z">>
UpperLetters == <<"A", "B", "C", "D", "E", "F", "G", "H", "I", "J", "K", "L", "M", "N", "O", "P", "Q", "R", "S", "T", "U", "V", "W", "X", "Y", "Z">>
Digits == <<"0", "1", "2", "3", "4", "5", "6", "7", "8", "9">>

upper_char(c) ==
    IF \E i \in DOMAIN LowerLetters : LowerLetters[i] = c
    THEN UpperLetters[CHOOSE i \in DOMAIN LowerLetters : LowerLetters[i] = c]
    ELSE c
lower_char(c) ==
    IF \E i \in DOMAIN UpperLetters : UpperLetters[i] = c
    THEN LowerLetters[CHOOSE i \in DOMAIN UpperLetters : UpperLetters[i] = c]
    ELSE c
\* str.upper()
upper(chars) == [i \in DOMAIN chars |-> upper_char(chars[i])]
\* str.capitalize(): the first character upper-cased, the others lower-cased
capitalize(chars) ==
    [i \in DOMAIN chars |-> IF i = 1 THEN upper_char(chars[i]) ELSE lower_char(chars[i])]
\* str.strip(): leading and trailing whitespace removed
strip(chars) ==
    LET solid == {i \in DOMAIN chars : chars[i] # " "}
    IN  IF solid = {} THEN <<>>
        ELSE LET first == CHOOSE i \in solid : \A j \in solid : i <= j
                 last == CHOOSE i \in solid : \A j \in solid : j <= i
             IN  SubSeq(chars, first, last)

IsDigit(c) == \E i \in DOMAIN Digits : Digits[i] = c
DigitVal(c) == (CHOOSE i \in DOMAIN Digits : Digits[i] = c) - 1
RECURSIVE DecimalVal(_)
\* the value of a sequence of digits
DecimalVal(ds) ==
    IF ds = <<>> THEN 0
    ELSE 10 * DecimalVal(SubSeq(ds, 1, Len(ds) - 1)) + DigitVal(ds[Len(ds)])
RECURSIVE Pow10(_)
Pow10(k) == IF k = 0 THEN 1 ELSE 10 * Pow10(k - 1)

\* the outcome of an operation that may raise
Ok(v) == [raised |-> "none", val |-> v]
Raise(exc) == [raised |-> exc, val |-> NaN]

\* the sign and the digits part of a stripped numeric text
split_sign(t) ==
    IF t # <<>> /\ t[1] = "-" THEN [sign |-> -1, body |-> Tail(t)]
    ELSE [sign |-> 1, body |-> t]

\* the number a stripped text spells: an int for digits only, a float for
\* digits around one decimal point, ValueError otherwise. The texts of the
\* model carry the fractions .0 and .5 only.
parse_number(t) ==
    With(split_sign(t), LAMBDA p :
        IF p.body # <<>> /\ \A i \in DOMAIN p.body : IsDigit(p.body[i])
        THEN Ok(IntC(p.sign * DecimalVal(p.body)))
        ELSE With({i \in DOMAIN p.body : p.body[i] = "."}, LAMBDA dots :
            IF /\ Cardinality(dots) = 1
               /\ Len(p.body) > 1
               /\ \A i \in DOMAIN p.body \ dots : IsDigit(p.body[i])
            THEN With(CHOOSE i \in dots : TRUE, LAMBDA d :
                    With(SubSeq(p.body, d + 1, Len(p.body)), LAMBDA frac :
                        Ok(FloatC(p.sign * (2 * DecimalVal(SubSeq(p.body, 1, d - 1))
                            + (2 * DecimalVal(frac)) \div Pow10(Len(frac)))))))
            ELSE Raise("ValueError")))

\* pd.to_numeric(x) of one entry: numbers and missing entries are returned
\* as they are; a str is parsed (surrounding whitespace skipped, the empty
\* str read as a missing entry) and raises ValueError when it is no number;
\* a timestamp raises TypeError
to_numeric(x) ==
    IF x.t = "dt" THEN Raise("TypeError")
    ELSE IF x.t # "str" THEN Ok(x)
    ELSE IF x.s = <<>> THEN Ok(NaN)
    ELSE parse_number(strip(x.s))

\* the dtype pandas infers for a column of the given entries, and the entries
\* cast to it (integers beside floats or missing entries become floats)
infer_column(name, vals) ==
    With({vals[i].t : i \in DOMAIN vals}, LAMBDA kinds :
        IF kinds \subseteq {"int"} THEN Column(name, "int64", vals)
        ELSE IF kinds \subseteq {"int", "float", "nan"}
             THEN Column(name, "float64",
                         [i \in DOMAIN vals |->
                             IF vals[i].t = "int" THEN FloatC(2 * vals[i].n) ELSE vals[i]])
        ELSE IF kinds \subseteq {"bool"} THEN Column(name, "bool", vals)
        ELSE Column(name, "object", vals))

\* dataframe.loc[:, feature].apply(lambda x: pd.to_numeric(x)): the column
\* of the converted entries, or the first exception an entry raises
apply_to_numeric(col) ==
    With([i \in DOMAIN col.vals |-> to_numeric(col.vals[i])], LAMBDA res :
        IF \E i \in DOMAIN res : res[i].raised # "none"
        THEN [raised |-> res[CHOOSE i \in DOMAIN res :
                                /\ res[i].raised # "none"
                                /\ \A j \in 1..(i - 1) : res[j].raised = "none"].raised,
              val |-> col]
        ELSE IF col.dtype \in OBJECT_DTYPES
             THEN Ok(infer_column(col.name, [i \in DOMAIN res |-> res[i].val]))
             ELSE Ok(col))

\* dataframe.loc[:, name] = column: the column of that name replaced
set_column(df, col) == [i \in DOMAIN df |-> IF df[i].name = col.name THEN col ELSE df[i]]

(***************************************************************************)
(* The stage functions of avatreat/utils/design.py. Each takes the table   *)
(* and yields [raised, df (the table as the call leaves it), val (the      *)
(* value returned)].                                                       *)
(***************************************************************************)
Done(df, v) == [raised |-> "none", df |-> df, val |-> v]
Failed(exc, df) == [raised |-> exc, df |-> df, val |-> <<>>]

\* the first loop of find_hidden_dtypes: an object column all of whose
\* entries convert is replaced by the converted column (ValueError: pass)
cast_numeric_column(col) ==
    IF col.dtype \notin OBJECT_DTYPES THEN col
    ELSE With(apply_to_numeric(col), LAMBDA r : IF r.raised = "none" THEN r.val ELSE col)

True_ == <<"T", "r", "u", "e">>
False_ == <<"F", "a", "l", "s", "e">>

\* the second loop of find_hidden_dtypes on one object column: the column
\* afterwards, or AttributeError when one of two distinct entries is no str
\* (only ValueError is caught)
recover_bool_column(col) ==
    With(unique(col.vals), LAMBDA uniques :
        IF Cardinality(uniques) # 2 THEN Ok(col)
        ELSE IF \E u \in uniques : u.t # "str" THEN [raised |-> "AttributeError", val |-> col]
        ELSE IF {strip(capitalize(u.s)) : u \in uniques} = {True_, False_}
             THEN Ok(Column(col.name, "bool",
                        [i \in DOMAIN col.vals |->
                            BoolC(strip(capitalize(col.vals[i].s)) = True_)]))
             ELSE Ok(col))

\* the second loop of find_hidden_dtypes over the object columns: the
\* columns before the first one that raises are left recovered
recover_bools(df) ==
    With([i \in DOMAIN df |->
             IF df[i].dtype \in OBJECT_DTYPES THEN recover_bool_column(df[i])
             ELSE Ok(df[i])], LAMBDA res :
        IF \A i \in DOMAIN res : res[i].raised = "none"
        THEN Done([i \in DOMAIN res |-> res[i].val], <<>>)
        ELSE With(CHOOSE i \in DOMAIN res :
                      /\ res[i].raised # "none"
                      /\ \A j \in 1..(i - 1) : res[j].raised = "none", LAMBDA k :
                Failed(res[k].raised,
                       [i \in DOMAIN res |-> IF i < k THEN res[i].val ELSE df[i]])))

\* find_hidden_dtypes(dataframe)
find_hidden_dtypes(dataframe) ==
    With([i \in DOMAIN dataframe |-> cast_numeric_column(dataframe[i])], recover_bools)

\* int(x) of a fill value: a float truncated toward zero; ValueError for a str
int_of(x) ==
    IF x.t = "str" THEN Raise("ValueError")
    ELSE IF x.t = "int" THEN Ok(x)
    ELSE Ok(IntC(IF x.n >= 0 THEN x.n \div 2 ELSE -((-x.n) \div 2)))

\* as fillna, only the first missing entry replaced
fillna_first(col, value) ==
    [col EXCEPT !.vals = [i \in DOMAIN col.vals |->
                             IF isnull(col.vals[i]) /\ \A j \in 1..(i - 1) : ~isnull(col.vals[j])
                             THEN value ELSE col.vals[i]]]

\* Series.fillna(value): every missing entry replaced by value
fillna(col, value) ==
    [col EXCEPT !.vals = [i \in DOMAIN col.vals |->
                             IF isnull(col.vals[i]) THEN value ELSE col.vals[i]]]

\* dataframe.loc[:, names] = dataframe.loc[:, names].fillna(value=value)
fill_columns(df, names, value) ==
    [i \in DOMAIN df |-> IF InList(df[i].name, names) THEN fillna(df[i], value) ELSE df[i]]

\* fill_missing_values(dataframe, numerical_fill_value, categorical_fill_value):
\* the object columns are filled before int(numerical_fill_value) is evaluated
fill_missing_values(dataframe, numerical_fill_value, categorical_fill_value) ==
    With(fill_columns(dataframe, select_dtypes(dataframe, OBJECT_DTYPES),
                      categorical_fill_value), LAMBDA df1 :
        With(int_of(numerical_fill_value), LAMBDA iv :
            IF iv.raised # "none" THEN Failed(iv.raised, df1)
            ELSE With(fill_columns(df1, select_dtypes(dataframe, INT_DTYPES), iv.val),
                      LAMBDA df2 :
                    Done(fill_columns(df2, select_dtypes(dataframe, FLOAT_DTYPES),
                                      numerical_fill_value), <<>>))))

\* the first loop of find_zero_variance_features on one column: the numeric
\* cast, ValueError and TypeError skipped
zv_cast_column(col) ==
    With(apply_to_numeric(col), LAMBDA r : IF r.raised = "none" THEN r.val ELSE col)

\* len(unique) < 2 for a numeric column
zv_numeric(col) == Cardinality(unique(col.vals)) < 2

\* as zv_object, the entries compared as they are
zv_object_verbatim(col) == Cardinality(unique(col.vals)) < 2

\* len(pd.unique([v.upper().strip() for v in vals])) < 2 for an object column
zv_object(col) == Cardinality({strip(upper(col.vals[i].s)) : i \in DOMAIN col.vals}) < 2

\* the two checking loops of find_zero_variance_features on the table the
\* cast loop left: v.upper() raises AttributeError on an entry of an object
\* column that is no str
zv_scan(df1) ==
    IF \E i \in DOMAIN df1 :
           /\ df1[i].dtype \in OBJECT_DTYPES
           /\ \E j \in DOMAIN df1[i].vals : df1[i].vals[j].t # "str"
    THEN Failed("AttributeError", df1)
    ELSE Done(df1,
              columns(SelectSeq(df1, LAMBDA c : c.dtype \in NUMERICAL_DTYPES /\ zv_numeric(c)))
              \o columns(SelectSeq(df1, LAMBDA c : c.dtype \in OBJECT_DTYPES /\ zv_object(c))))

\* find_zero_variance_features(dataframe, exclude_zero_variance_features, ...)
find_zero_variance_features(dataframe, exclude_zero_variance_features) ==
    IF ~exclude_zero_variance_features THEN Done(dataframe, <<>>)
    ELSE With([i \in DOMAIN dataframe |-> zv_cast_column(dataframe[i])], zv_scan)

\* get_treatment_features(dataframe, id_features, datetime_features, target,
\* blacklist): the columns outside the four exclusion lists, in table order
get_treatment_features(dataframe, id_features, datetime_features, target, blacklist) ==
    LET out == id_features \o datetime_features \o <<target>> \o blacklist
    IN  SelectSeq(columns(dataframe), LAMBDA name : ~InList(name, out))

\* as move_last, the target inserted before the last of the other features
move_before_last(features, target) ==
    LET others == SelectSeq(features, LAMBDA f : f # target)
    IN  IF others = <<>> THEN <<target>>
        ELSE SubSeq(others, 1, Len(others) - 1) \o <<target>> \o <<others[Len(others)]>>

\* features.insert(len(features) - 1, features.pop(features.index(target)))
move_last(features, target) ==
    LET k == CHOOSE i \in DOMAIN features : features[i] = target /\ \A j \in 1..(i - 1) : features[j] # target
        popped == SubSeq(features, 1, k - 1) \o SubSeq(features, k + 1, Len(features))
        insert_loc == Len(features) - 1
    IN  SubSeq(popped, 1, insert_loc) \o <<target>> \o SubSeq(popped, insert_loc + 1, Len(popped))

\* reindex_target(dataframe, target): a new table with the target column
\* last; features.index raises ValueError when the table has no such column
reindex_target(dataframe, target) ==
    IF target = None THEN Done(dataframe, <<>>)
    ELSE IF ~InList(target, columns(dataframe)) THEN Failed("ValueError", dataframe)
    ELSE LET features == move_last(columns(dataframe), target)
         IN  Done([i \in DOMAIN features |-> loc(dataframe, features[i])], <<>>)

\* pd.to_numeric(x, downcast="integer") of a float column: an integer column
\* when every entry is a whole number, the column itself otherwise
downcast_integer(col) ==
    IF \A i \in DOMAIN col.vals : col.vals[i].t = "float" /\ col.vals[i].n % 2 = 0
    THEN Column(col.name, "int64", [i \in DOMAIN col.vals |-> IntC(col.vals[i].n \div 2)])
    ELSE col

\* cast_to_int(dataframe, treatment_features), in place
cast_to_int(dataframe, treatment_features) ==
    Done([i \in DOMAIN dataframe |->
            IF /\ InList(dataframe[i].name, treatment_features)
               /\ dataframe[i].dtype \in FLOAT_DTYPES
            THEN downcast_integer(dataframe[i])
            ELSE dataframe[i]], <<>>)

\* dataframe.loc[:, treatment_features].select_dtypes(include=dtypes).columns
select_among(dataframe, treatment_features, dtypes) ==
    SelectSeq(treatment_features, LAMBDA name : loc(dataframe, name).dtype \in dtypes)

\* get_column_dtypes(dataframe, treatment_features)
get_column_dtypes(dataframe, treatment_features) ==
    [int_features |-> select_among(dataframe, treatment_features, INT_DTYPES),
     float_features |-> select_among(dataframe, treatment_features, FLOAT_DTYPES),
     object_features |-> select_among(dataframe, treatment_features, OBJECT_DTYPES),
     bool_features |-> select_among(dataframe, treatment_features, BOOL_DTYPES)]

\* the eight select_dtypes calls of _get_dtypes over the listed features
dtype_buckets(df, features) ==
    [objs |-> select_among(df, features, OBJECT_DTYPES),
     cats |-> select_among(df, features, CATEGORICAL_DTYPES),
     bool |-> select_among(df, features, BOOL_DTYPES),
     ints |-> select_among(df, features, INT_DTYPES),
     floats |-> select_among(df, features, FLOAT_DTYPES),
     dts |-> select_among(df, features, DATETIME_DTYPES),
     dttz |-> select_among(df, features, DATETIMETZ_DTYPES),
     tds |-> select_among(df, features, TIMEDELTAS)]

(***************************************************************************)
(* The TreatmentDesign class of avatreat/preprocessing/design.py.          *)
(***************************************************************************)
\* the strategy that keeps the configured numerical fill value
systematically == "systematically"
\* the name that stands for the fill value under every other strategy
mean == Str(<<"m", "e", "a", "n">>)

\* TreatmentDesign.__init__
TreatmentDesign(kw) ==
    [cls |-> "TreatmentDesign",
     index_features |-> IF kw.index_features # NoList THEN kw.index_features ELSE <<>>,
     datetime_features |-> IF kw.datetime_features # NoList THEN kw.datetime_features ELSE <<>>,
     target |-> kw.target,
     missing_numerical_strategy |-> kw.missing_numerical_strategy,
     numerical_fill_value |-> IF kw.missing_numerical_strategy = systematically
                              THEN kw.numerical_fill_value ELSE mean,
     categorical_fill_value |-> kw.categorical_fill_value,
     rare_level_threshold |-> kw.rare_level_threshold,
     allowable_rare_percentage |-> kw.allowable_rare_percentage,
     exclude_zero_variance_features |-> kw.exclude_zero_variance_features,
     df_ |-> NoFrame,
     blacklist_ |-> Unset,
     treatment_features_ |-> Unset,
     int_features_ |-> Unset,
     float_features_ |-> Unset,
     object_features_ |-> Unset,
     bool_features_ |-> Unset,
     high_cardinality_features_ |-> Unset,
     categorical_features_ |-> Unset]

\* DataFrame.copy(): a new table object holding the same entries
DF_alias(h, ref) == [heap |-> h, ref |-> ref]
\* a copy that leaves out the columns of the unsupported dtypes
DF_copy_supported(h, ref) ==
    [heap |-> Append(h, SelectSeq(h[ref], LAMBDA c :
                  c.dtype \notin DATETIME_DTYPES \cup DATETIMETZ_DTYPES \cup TIMEDELTAS)),
     ref |-> Len(h) + 1]
DF_copy(h, ref) == [heap |-> Append(h, h[ref]), ref |-> Len(h) + 1]

(***************************************************************************)
(* The FeaturePreprocessor class (old/preprocessing/feature_preprocessor). *)
(***************************************************************************)

\* FeaturePreprocessor.__init__: the constructor stores its arguments; the
\* attributes fit sets do not exist yet
FeaturePreprocessor(kw) ==
    [cls |-> "FeaturePreprocessor",
     index_feature |-> kw.index_feature,
     target_feature |-> kw.target_feature,
     find_hidden_numerics |-> kw.find_hidden_numerics,
     exclude_zero_variance_features |-> kw.exclude_zero_variance_features,
     floats_to_ints |-> kw.floats_to_ints,
     missing_numerical_strategy |-> kw.missing_numerical_strategy,
     numerical_fill_value |-> kw.numerical_fill_value,
     categorical_fill_value |-> kw.categorical_fill_value,
     rare_level_threshold |-> kw.rare_level_threshold,
     max_rare_percentage |-> kw.max_rare_percentage,
     is_fitted_ |-> "unset",
     df_ |-> NoFrame,
     excluded_features_ |-> Unset,
     object_features_ |-> Unset,
     categorical_features_ |-> Unset,
     boolean_features_ |-> Unset,
     integer_features_ |-> Unset,
     float_features_ |-> Unset,
     datetime_features_ |-> Unset,
     datetime_timezone_features_ |-> Unset,
     timedelta_features_ |-> Unset,
     hidden_ints_ |-> Unset,
     hidden_floats_ |-> Unset,
     removable_features_ |-> Unset,
     zero_variance_features_ |-> Unset,
     treatment_features_ |-> Unset,
     features_with_nans_ |-> Unset,
     integer_castables_ |-> Unset,
     high_cardinality_features_ |-> Unset,
     dataframe_transformer |-> "unset",
     treated_df_ |-> NoFrame]

\* one iteration of the loop of FeaturePreprocessor._find_high_cardinality_features:
\* whether the feature is appended to high_cardinality
FP_is_high_cardinality(obj, df, feature) ==
    IF Cardinality(unique(loc(df, feature).vals)) = nrows(df)
    THEN TRUE
    ELSE LET rc == rare_count(df, feature, obj.rare_level_threshold)
         IN  DivGt(rc, nrows(df), obj.max_rare_percentage)

\* FeaturePreprocessor._find_high_cardinality_features(self), df == self.df_
FP_find_high_cardinality_features(obj, df) ==
    SelectSeq(obj.object_features_, LAMBDA feature : FP_is_high_cardinality(obj, df, feature))

\* the three fillna statements of the _fill_missing_values methods, on the
\* bucket lists the object holds; int(self.numerical_fill_value) is
\* evaluated after the object columns are filled
fill_by_buckets(obj, df) ==
    With(fill_columns(df, obj.object_features_, obj.categorical_fill_value), LAMBDA df1 :
        With(int_of(obj.numerical_fill_value), LAMBDA iv :
            IF iv.raised # "none" THEN Failed(iv.raised, df1)
            ELSE Done(fill_columns(fill_columns(df1, obj.integer_features_, iv.val),
                                   obj.float_features_, obj.numerical_fill_value), <<>>)))

\* FeaturePreprocessor._get_dtypes(self): the buckets of the columns other
\* than target and index; Index.drop raises KeyError for an absent label
FP_get_dtypes(obj, df) ==
    IF \/ obj.target_feature # None /\ ~InList(obj.target_feature, columns(df))
       \/ obj.index_feature # None /\ ~InList(obj.index_feature, columns(df))
    THEN Raise("KeyError")
    ELSE Ok(dtype_buckets(df, SelectSeq(columns(df), LAMBDA name :
                name # obj.target_feature /\ name # obj.index_feature)))

\* the object with the eight lists _get_dtypes returned stored
store_dtypes(obj, b) ==
    [obj EXCEPT !.object_features_ = b.objs,
                !.categorical_features_ = b.cats,
                !.boolean_features_ = b.bool,
                !.integer_features_ = b.ints,
                !.float_features_ = b.floats,
                !.datetime_features_ = b.dts,
                !.datetime_timezone_features_ = b.dttz,
                !.timedelta_features_ = b.tds]

\* FeaturePreprocessor._fill_missing_values(self): df = self.df_.copy() is
\* filled and returned, self.df_ is left as it is
FP_fill_missing_values(obj, df) == fill_by_buckets(obj, df)

\* pd.to_numeric(x, errors="ignore") of a column whose missing entries were
\* filled: the dtype of the outcome
hidden_dtype(col, value) ==
    With(apply_to_numeric(fillna(col, value)), LAMBDA r :
        IF r.raised = "none" THEN r.val.dtype ELSE col.dtype)

\* FeaturePreprocessor._find_hidden_numerics(self)
FP_find_hidden_numerics(obj, df) ==
    [hidden_ints |-> SelectSeq(obj.object_features_, LAMBDA f :
        hidden_dtype(loc(df, f), int_of(obj.numerical_fill_value).val) \in INT_DTYPES),
     hidden_floats |-> SelectSeq(obj.object_features_, LAMBDA f :
        hidden_dtype(loc(df, f), obj.numerical_fill_value) \in FLOAT_DTYPES)]

\* FeaturePreprocessor._get_removable_features(self)
FP_get_removable_features(obj) ==
    obj.datetime_timezone_features_ \o obj.datetime_features_ \o obj.timedelta_features_

\* the object loop of FeaturePreprocessor._find_zero_variance_features on one
\* column: an entry that is no str raises in v.upper() and the bare except
\* skips the column
FP_zv_object(col) ==
    /\ \A j \in DOMAIN col.vals : col.vals[j].t = "str"
    /\ zv_object(col)

\* FeaturePreprocessor._find_zero_variance_features(self)
FP_find_zero_variance_features(obj, df) ==
    SelectSeq(obj.integer_features_ \o obj.float_features_,
              LAMBDA f : zv_numeric(loc(df, f)))
    \o SelectSeq(obj.object_features_, LAMBDA f : FP_zv_object(loc(df, f)))

\* as FP_get_treatment_features, the removable features kept
FP_get_treatment_features_keeping_removable(obj, df) ==
    SelectSeq(columns(df), LAMBDA name :
        ~InList(name, obj.excluded_features_ \o obj.zero_variance_features_))

\* FeaturePreprocessor._get_treatment_features(self)
FP_get_treatment_features(obj, df) ==
    SelectSeq(columns(df), LAMBDA name :
        ~InList(name, obj.excluded_features_ \o obj.removable_features_
                          \o obj.zero_variance_features_))

\* FeaturePreprocessor._find_nan_features(self)
FP_find_nan_features(df) ==
    columns(SelectSeq(df, LAMBDA c : \E j \in DOMAIN c.vals : isnull(c.vals[j])))

\* one iteration of the loop of FeaturePreprocessor._cast_to_int: every
\* filled entry is a float that is_integer(); an entry that is no float
\* raises and the bare except passes
FP_castable(col, value) ==
    \A j \in DOMAIN col.vals :
        With(IF isnull(col.vals[j]) THEN value ELSE col.vals[j], LAMBDA x :
            x.t = "float" /\ x.n % 2 = 0)

\* FeaturePreprocessor._cast_to_int(self) while self.is_fitted_ is False
FP_cast_to_int(obj, df) ==
    SelectSeq(obj.float_features_ \o obj.hidden_floats_,
              LAMBDA f : FP_castable(loc(df, f), obj.numerical_fill_value))

\* as move_first, the index feature changing places with the first feature
move_first_swapping(features, index_feature) ==
    [i \in DOMAIN features |->
        IF i = 1 THEN index_feature
        ELSE IF features[i] = index_feature THEN features[1] ELSE features[i]]

\* features.insert(0, features.pop(features.index(index_feature)))
move_first(features, index_feature) ==
    LET k == CHOOSE i \in DOMAIN features :
                 features[i] = index_feature /\ \A j \in 1..(i - 1) : features[j] # index_feature
    IN  <<index_feature>> \o SubSeq(features, 1, k - 1) \o SubSeq(features, k + 1, Len(features))

\* DataFrame.reindex(columns=features): a new table of the columns in the
\* order of the list
reindex(df, features) == [i \in DOMAIN features |-> loc(df, features[i])]

\* FeaturePreprocessor._reindex_target(self), df == self.df_: the table that
\* becomes self.df_; features.index raises ValueError for an absent name
FP_reindex_target(obj, df) ==
    IF ~InList(obj.target_feature, columns(df)) THEN Raise("ValueError")
    ELSE Ok(reindex(df, move_last(columns(df), obj.target_feature)))

\* FeaturePreprocessor._reindex_index(self), df == self.df_
FP_reindex_index(obj, df) ==
    IF ~InList(obj.index_feature, columns(df)) THEN Raise("ValueError")
    ELSE Ok(reindex(df, move_first(columns(df), obj.index_feature)))

\* the outcome of a method: what it raised, the object and the heap as it
\* leaves them
Outcome(raised, obj, h) == [raised |-> raised, self |-> obj, heap |-> h]

\* self.df_ = a new table
FP_set_df(o, table) ==
    Outcome("none", [o.self EXCEPT !.df_ = Len(o.heap) + 1], Append(o.heap, table))

\* the target block of FeaturePreprocessor.transform: self._reindex_target()
\* and then self.treated_df_.pipe(), a call without the required func
FP_transform_target(o) ==
    IF o.self.target_feature = None THEN o
    ELSE With(FP_reindex_target(o.self, o.heap[o.self.df_]), LAMBDA r :
            IF r.raised # "none" THEN Outcome(r.raised, o.self, o.heap)
            ELSE With(FP_set_df(o, r.val), LAMBDA o1 :
                    Outcome("TypeError", o1.self, o1.heap)))

\* the index block of FeaturePreprocessor.transform: self._reindex_index()
\* and then self.treated_df_.pipe(self._reindex_index), which calls the
\* bound method with the table as a second argument
FP_transform_index(o) ==
    IF o.raised # "none" \/ o.self.index_feature = None THEN o
    ELSE With(FP_reindex_index(o.self, o.heap[o.self.df_]), LAMBDA r :
            IF r.raised # "none" THEN Outcome(r.raised, o.self, o.heap)
            ELSE With(FP_set_df(o, r.val), LAMBDA o1 :
                    Outcome("TypeError", o1.self, o1.heap)))

\* a transform that also records the names it moves as excluded
FP_transform_excluding(obj, h) ==
    With([obj EXCEPT !.dataframe_transformer = "DataFrameTransformer",
                     !.excluded_features_ =
                         IF obj.target_feature = None \/ @ = Unset THEN @
                         ELSE Append(@, obj.target_feature)], LAMBDA obj1 :
        IF obj1.df_ = NoFrame THEN Outcome("AttributeError", obj1, h)
        ELSE With(DF_copy(h, obj1.df_), LAMBDA c :
                FP_transform_index(FP_transform_target(
                    Outcome("none", [obj1 EXCEPT !.treated_df_ = c.ref], c.heap)))))

\* FeaturePreprocessor.transform(self): the attribute df_ does not exist
\* before fit assigned it (AttributeError)
FP_transform(obj, h) ==
    With([obj EXCEPT !.dataframe_transformer = "DataFrameTransformer"], LAMBDA obj1 :
        IF obj1.df_ = NoFrame THEN Outcome("AttributeError", obj1, h)
        ELSE With(DF_copy(h, obj1.df_), LAMBDA c :
                FP_transform_index(FP_transform_target(
                    Outcome("none", [obj1 EXCEPT !.treated_df_ = c.ref], c.heap)))))

\* FeaturePreprocessor.transform(self) of preprocessing/feature_preprocessor.py:
\* treated_df_ is a copy of df_, df_ becomes the filled copy that
\* _fill_missing_values returns
FP_new_transform(obj, h) ==
    IF obj.df_ = NoFrame THEN Outcome("AttributeError", obj, h)
    ELSE With(DF_copy(h, obj.df_), LAMBDA c :
         With([obj EXCEPT !.treated_df_ = c.ref], LAMBDA obj1 :
         With(FP_fill_missing_values(obj1, c.heap[obj1.df_]), LAMBDA f :
            IF f.raised # "none" THEN Outcome(f.raised, obj1, c.heap)
            ELSE FP_set_df(Outcome("none", obj1, c.heap), f.df))))

\* reindex_target(dataframe, target) of utils/routines/fit.py: the values
\* of the target column are read (KeyError for an absent name), the column
\* is dropped and a column of that name and those values is added, last
\* (the array .values yields keeps the dtype of an object, int or float column)
routines_reindex_target(dataframe, target) ==
    IF target = None THEN Done(dataframe, <<>>)
    ELSE IF ~InList(target, columns(dataframe)) THEN Failed("KeyError", dataframe)
    ELSE With(loc(dataframe, target), LAMBDA col :
            Done(SelectSeq(dataframe, LAMBDA c : c.name # target)
                     \o <<Column(target, col.dtype, col.vals)>>, <<>>))

(***************************************************************************)
(* The TreatmentDesign class of avatreat/preprocessing/treatment_design.py *)
(***************************************************************************)
\* TreatmentDesign.__init__
TreatmentDesign_td(kw) ==
    [cls |-> "TreatmentDesign_td",
     index_feature |-> kw.index_feature,
     target |-> kw.target,
     exclude_zero_variance_features |-> kw.exclude_zero_variance_features,
     missing_numerical_strategy |-> kw.missing_numerical_strategy,
     numerical_fill_value |-> IF kw.missing_numerical_strategy = systematically
                              THEN kw.numerical_fill_value ELSE mean,
     categorical_fill_value |-> kw.categorical_fill_value,
     rare_level_threshold |-> kw.rare_level_threshold,
     allowable_rare_percentage |-> kw.allowable_rare_percentage,
     df_ |-> NoFrame,
     excluded_features_ |-> Unset,
     object_features_ |-> Unset,
     categorical_features_ |-> Unset,
     boolean_features_ |-> Unset,
     integer_features_ |-> Unset,
     float_features_ |-> Unset,
     datetime_features_ |-> Unset,
     datetime_timezone_features_ |-> Unset,
     timedelta_features_ |-> Unset,
     zero_variance_features_ |-> Unset,
     treatment_features_ |-> Unset]

\* TreatmentDesign._get_dtypes(self): the buckets of all columns
TD_get_dtypes(df) == dtype_buckets(df, columns(df))

\* TreatmentDesign._fill_missing_values(self): self.df_ filled in place
TD_fill_missing_values(obj, df) == fill_by_buckets(obj, df)

\* TreatmentDesign._find_zero_variance_features(self): v.upper() raises
\* AttributeError for an entry of an object column that is no str
TD_find_zero_variance_features(obj, df) ==
    IF \E f \in ToSet(obj.object_features_) :
           \E j \in DOMAIN loc(df, f).vals : loc(df, f).vals[j].t # "str"
    THEN Raise("AttributeError")
    ELSE Ok(SelectSeq(obj.integer_features_ \o obj.float_features_,
                      LAMBDA f : zv_numeric(loc(df, f)))
            \o SelectSeq(obj.object_features_, LAMBDA f : zv_object(loc(df, f))))

\* self.excluded_features_.append(*self.zero_variance_features_): append
\* takes exactly one argument (TypeError)
TD_exclude_zero_variance(obj, zero_var) ==
    With([obj EXCEPT !.zero_variance_features_ = zero_var], LAMBDA obj1 :
        IF Len(zero_var) = 0 THEN Outcome("none", obj1, <<>>)
        ELSE IF Len(zero_var) = 1
             THEN Outcome("none", [obj1 EXCEPT !.excluded_features_ = @ \o zero_var], <<>>)
             ELSE Outcome("TypeError", obj1, <<>>))

\* TreatmentDesign._get_treatment_features(self)
TD_get_treatment_features(obj, df) ==
    SelectSeq(columns(df), LAMBDA name : ~InList(name, obj.excluded_features_))

\* TreatmentDesign._find_hidden_dtypes(self): the first object feature is
\* read as a Series, which has no applymap (AttributeError, not caught by
\* except ValueError); without object features no list is changed
TD_find_hidden_dtypes(obj, df) ==
    IF Len(obj.object_features_) > 0 THEN Failed("AttributeError", df)
    ELSE Done(df, <<>>)

\* FeaturePreprocessor.__init__ of preprocessing/feature_preprocessor.py:
\* the attributes of the class of old/preprocessing (target_feature stands
\* for the attribute this class calls target), the fill value replaced by
\* "mean" under a strategy other than "systematically"
FeaturePreprocessor_new(kw) ==
    [FeaturePreprocessor(kw) EXCEPT
        !.cls = "FeaturePreprocessor_new",
        !.numerical_fill_value = IF kw.missing_numerical_strategy = systematically
                                 THEN kw.numerical_fill_value ELSE mean]

(***************************************************************************)
(* fit as one call: the statements of fit one after the other, each on the *)
(* outcome of the one before; an exception ends the call where it is       *)
(* raised and leaves the attributes assigned so far.                       *)
(***************************************************************************)
\* the names fit excludes to begin with: the target and the index feature
\* that are not None
named_features(obj) ==
    (IF obj.target_feature # None THEN <<obj.target_feature>> ELSE <<>>)
    \o (IF obj.index_feature # None THEN <<obj.index_feature>> ELSE <<>>)

\* as FP_fit_start, the names appended to the list a former fit left
FP_fit_start_accumulating(obj, h, X) ==
    With(DF_copy(h, X), LAMBDA c :
        Outcome("none",
                [obj EXCEPT !.is_fitted_ = "False", !.df_ = c.ref,
                            !.excluded_features_ =
                                (IF @ = Unset THEN <<>> ELSE @) \o named_features(obj)],
                c.heap))

\* FeaturePreprocessor.fit up to its call of _get_dtypes: self.is_fitted_ =
\* False; self.df_ = X.copy(); self.excluded_features_ = a new list
FP_fit_start(obj, h, X) ==
    With(DF_copy(h, X), LAMBDA c :
        Outcome("none",
                [obj EXCEPT !.is_fitted_ = "False", !.df_ = c.ref,
                            !.excluded_features_ = named_features(obj)],
                c.heap))

\* the statements of FeaturePreprocessor.fit after _get_dtypes returned b:
\* the class of old/preprocessing ends with the high-cardinality features
\* and self.is_fitted_ = True, the class of preprocessing returns after the
\* float-to-int step
FP_fit_rest(obj, df, b) ==
    With(store_dtypes(obj, b), LAMBDA o1 :
    With(IF o1.find_hidden_numerics THEN FP_find_hidden_numerics(o1, df)
         ELSE [hidden_ints |-> <<>>, hidden_floats |-> <<>>], LAMBDA hid :
    With([o1 EXCEPT !.hidden_ints_ = hid.hidden_ints,
                    !.hidden_floats_ = hid.hidden_floats,
                    !.removable_features_ = FP_get_removable_features(o1)], LAMBDA o2 :
    With([o2 EXCEPT !.zero_variance_features_ =
                        IF o2.exclude_zero_variance_features
                        THEN FP_find_zero_variance_features(o2, df) ELSE <<>>], LAMBDA o3 :
    With([o3 EXCEPT !.treatment_features_ = FP_get_treatment_features(o3, df),
                    !.features_with_nans_ = FP_find_nan_features(df)], LAMBDA o4 :
    With([o4 EXCEPT !.integer_castables_ =
                        IF o4.floats_to_ints THEN FP_cast_to_int(o4, df) ELSE <<>>], LAMBDA o5 :
        IF o5.cls = "FeaturePreprocessor"
        THEN [o5 EXCEPT !.high_cardinality_features_ =
                            FP_find_high_cardinality_features(o5, df),
                        !.is_fitted_ = "True"]
        ELSE o5))))))

\* FeaturePreprocessor.fit(self, X), X the caller's table on the heap
FP_fit(obj, h, X) ==
    With(FP_fit_start(obj, h, X), LAMBDA o :
        With(FP_get_dtypes(o.self, o.heap[o.self.df_]), LAMBDA r :
            IF r.raised # "none" THEN Outcome(r.raised, o.self, o.heap)
            ELSE Outcome("none", FP_fit_rest(o.self, o.heap[o.self.df_], r.val), o.heap)))

\* TreatmentDesign.fit(self, DF) of treatment_design.py
TD_fit(obj, h, DF) ==
    With(DF_copy(h, DF), LAMBDA c :
    With(TD_get_dtypes(c.heap[c.ref]), LAMBDA b :
    With([store_dtypes(obj, b) EXCEPT
              !.df_ = c.ref,
              !.excluded_features_ =
                  (IF obj.target # None THEN <<obj.target>> ELSE <<>>)
                  \o (IF obj.index_feature # None THEN <<obj.index_feature>> ELSE <<>>)
                  \o b.dttz \o b.dts \o b.tds], LAMBDA o1 :
    With(TD_fill_missing_values(o1, c.heap[c.ref]), LAMBDA f :
    With([c.heap EXCEPT ![c.ref] = f.df], LAMBDA h1 :
        IF f.raised # "none" THEN Outcome(f.raised, o1, h1)
        ELSE IF ~o1.exclude_zero_variance_features
        THEN Outcome("none",
                     [o1 EXCEPT !.treatment_features_ = TD_get_treatment_features(o1, f.df)],
                     h1)
        ELSE With(TD_find_zero_variance_features(o1, f.df), LAMBDA z :
                IF z.raised # "none" THEN Outcome(z.raised, o1, h1)
                ELSE With(TD_exclude_zero_variance(o1, z.val), LAMBDA o2 :
                        IF o2.raised # "none" THEN Outcome(o2.raised, o2.self, h1)
                        ELSE Outcome("none",
                                 [o2.self EXCEPT !.treatment_features_ =
                                     TD_get_treatment_features(o2.self, f.df)],
                                 h1))))))))

(***************************************************************************)
(* Inputs: small tables and configurations.                                *)
(***************************************************************************)
s_a == Str(<<"a">>)
s_b == Str(<<"b">>)
s_NA == Str(<<"N", "A">>)

\* the default thresholds 0.02 and 0.1 of the constructors
DefaultRareLevelThreshold == Rat(1, 50)
DefaultAllowableRarePercentage == Rat(1, 10)

RareLevelThresholds == {DefaultRareLevelThreshold, Rat(1, 3), Rat(2, 3)}
RarePercentages == {DefaultAllowableRarePercentage, Rat(1, 3), Rat(1, 2)}

\* the default keyword arguments of FeaturePreprocessor.__init__
FPDefaults ==
    [index_feature |-> None,
     target_feature |-> None,
     find_hidden_numerics |-> FALSE,
     exclude_zero_variance_features |-> TRUE,
     floats_to_ints |-> FALSE,
     missing_numerical_strategy |-> "systematically",
     numerical_fill_value |-> FloatC(-2),
     categorical_fill_value |-> s_NA,
     rare_level_threshold |-> DefaultRareLevelThreshold,
     max_rare_percentage |-> DefaultAllowableRarePercentage]

\* the tables of one or two text columns "w" and "x" over n rows
SplitTables ==
    UNION {
        {<<Column("w", "object", w)>> : w \in [1..n -> {s_a, s_b, NaN}]}
        \cup
        {<<Column("w", "object", w), Column("x", "object", x)>> :
            w \in [1..n -> {s_a, s_b, NaN}], x \in [1..n -> {s_a, s_b}]}
        : n \in 1..MaxRows}

\* the lists of distinct column names of a table, in any order
FeatureLists(df) ==
    LET names == ToSet(columns(df))
    IN  {<<>>} \cup {<<f>> : f \in names}
        \cup {p \in names \X names : p[1] # p[2]}

NoCall == [fn |-> "none"]

(***************************************************************************)
(* SpecSplit: the cardinality split applied to small text tables.          *)
(***************************************************************************)
InitSplit ==
    \E df \in SplitTables, rlt \in RareLevelThresholds, mrp \in RarePercentages :
        /\ heap = <<df>>
        /\ input = df
        /\ self = [FeaturePreprocessor([FPDefaults EXCEPT
                        !.rare_level_threshold = rlt,
                        !.max_rare_percentage = mrp])
                   EXCEPT !.df_ = 1,
                          !.is_fitted_ = "False",
                          !.object_features_ = select_dtypes(df, OBJECT_DTYPES)]
        /\ pc = "start"
        /\ call = NoCall

\* a caller applies find_high_cardinality_features to its table
CallSplit ==
    /\ pc = "start"
    /\ \E feats \in FeatureLists(heap[1]) :
        call' = [fn |-> "find_high_cardinality_features",
                 object_features |-> feats,
                 rare_level_threshold |-> self.rare_level_threshold,
                 allowable_rare_percentage |-> self.max_rare_percentage,
                 result |-> find_high_cardinality_features(heap[1], feats,
                                self.rare_level_threshold, self.max_rare_percentage)]
    /\ pc' = "returned"
    /\ UNCHANGED <<heap, self, input>>

\* the split stage of FeaturePreprocessor.fit
CallSplitMethod ==
    /\ pc = "start"
    /\ call' = [fn |-> "_find_high_cardinality_features"]
    /\ self' = [self EXCEPT !.high_cardinality_features_ =
                    FP_find_high_cardinality_features(self, heap[self.df_])]
    /\ pc' = "returned"
    /\ UNCHANGED <<heap, input>>

NextSplit == CallSplit \/ CallSplitMethod

SpecSplit == InitSplit /\ [][NextSplit]_vars

(***************************************************************************)
(* TreatmentDesign.fit of avatreat/preprocessing/design.py, one action per *)
(* statement. pc names the statement fit executes next; call records the   *)
(* stage that ran last, the table it was given and what it raised.         *)
(***************************************************************************)
s_A_padded == Str(<<" ", "A", " ">>)
s_1 == Str(<<"1">>)
s_empty == Str(<<>>)
s_true == Str(<<"t", "r", "u", "e">>)
s_False_padded == Str(<<"F", "a", "l", "s", "e", " ">>)

\* the columns a table of n rows is assembled from, in table order
PoolNames == <<"i", "y", "w", "x", "z", "nn", "u", "b", "t">>
PoolColumn(name, n) ==
    CASE name = "i" -> Column("i", "int64", [k \in 1..n |-> IntC(k)])
      [] name = "y" -> Column("y", "int64", [k \in 1..n |-> IntC(k % 2)])
      [] name = "w" -> Column("w", "object", [k \in 1..n |-> IF k % 2 = 1 THEN s_a ELSE s_b])
      [] name = "x" -> Column("x", "object", [k \in 1..n |-> IF k = 1 THEN NaN ELSE s_a])
      [] name = "z" -> Column("z", "object", [k \in 1..n |-> IF k % 2 = 1 THEN s_a ELSE s_A_padded])
      [] name = "nn" -> Column("nn", "object", [k \in 1..n |-> IF k % 2 = 1 THEN s_1 ELSE s_empty])
      [] name = "u" -> Column("u", "float64", [k \in 1..n |-> IF k % 2 = 1 THEN FloatC(3) ELSE NaN])
      [] name = "b" -> Column("b", "object", [k \in 1..n |-> IF k % 2 = 1 THEN s_true ELSE s_False_padded])
      [] name = "t" -> Column("t", "datetime64", [k \in 1..n |-> Timestamp])
      [] name = "zz" -> Column("zz", "int64", [k \in 1..n |-> IntC(0)])
      [] name = "tz" -> Column("tz", "datetimetz", [k \in 1..n |-> Timestamp])
      [] name = "d" -> Column("d", "timedelta64", [k \in 1..n |-> Timestamp])

\* the table of n rows holding the columns of the list that are chosen
PoolTable(names, chosen, n) ==
    With(SelectSeq(names, LAMBDA name : name \in chosen), LAMBDA kept :
        [k \in DOMAIN kept |-> PoolColumn(kept[k], n)])

\* the tables of one to MaxCols columns of a list over one to MaxRows rows
PoolTables(names) ==
    {PoolTable(names, chosen, n) :
        chosen \in {c \in SUBSET ToSet(names) : Cardinality(c) \in 1..MaxCols},
        n \in 1..MaxRows}

DesignTables == PoolTables(PoolNames)

\* the constructor arguments fit is exercised with
DesignDefaults ==
    [index_features |-> NoList,
     datetime_features |-> NoList,
     target |-> None,
     missing_numerical_strategy |-> systematically,
     numerical_fill_value |-> FloatC(-2),
     categorical_fill_value |-> s_NA,
     rare_level_threshold |-> DefaultRareLevelThreshold,
     allowable_rare_percentage |-> DefaultAllowableRarePercentage,
     exclude_zero_variance_features |-> TRUE]

DesignConfigs ==
    {[DesignDefaults EXCEPT !.index_features = ix, !.datetime_features = dts,
                            !.target = tg, !.missing_numerical_strategy = strategy,
                            !.rare_level_threshold = rlt,
                            !.exclude_zero_variance_features = zv] :
        ix \in {NoList, <<"i">>}, dts \in {NoList, <<"t">>}, tg \in {None, "y"},
        strategy \in {systematically, "random"},
        rlt \in {DefaultRareLevelThreshold, Rat(1, 3)}, zv \in BOOLEAN}

InitDesign ==
    \E df \in DesignTables, kw \in DesignConfigs :
        /\ heap = <<df>>
        /\ input = df
        /\ self = TreatmentDesign(kw)
        /\ pc = "copy"
        /\ call = NoCall

Stage(fn, before, raised) == [fn |-> fn, before |-> before, raised |-> raised]
After(raised, next) == IF raised = "none" THEN next ELSE "raised"

\* self.df_ = DF.copy()
Fit_copy ==
    /\ pc = "copy"
    /\ \E r \in {DF_copy(heap, 1)} :
           /\ heap' = r.heap
           /\ self' = [self EXCEPT !.df_ = r.ref]
    /\ call' = Stage("copy", heap[1], "none")
    /\ pc' = "find_hidden_dtypes"
    /\ UNCHANGED input

\* self.df_ = find_hidden_dtypes(dataframe=self.df_)
Fit_find_hidden_dtypes ==
    /\ pc = "find_hidden_dtypes"
    /\ \E r \in {find_hidden_dtypes(heap[self.df_])} :
           /\ heap' = [heap EXCEPT ![self.df_] = r.df]
           /\ call' = Stage("find_hidden_dtypes", heap[self.df_], r.raised)
           /\ pc' = After(r.raised, "fill_missing_values")
    /\ UNCHANGED <<self, input>>

\* self.df_ = fill_missing_values(dataframe=self.df_, ...)
Fit_fill_missing_values ==
    /\ pc = "fill_missing_values"
    /\ \E r \in {fill_missing_values(heap[self.df_], self.numerical_fill_value,
                                    self.categorical_fill_value)} :
           /\ heap' = [heap EXCEPT ![self.df_] = r.df]
           /\ call' = Stage("fill_missing_values", heap[self.df_], r.raised)
           /\ pc' = After(r.raised, "find_zero_variance_features")
    /\ UNCHANGED <<self, input>>

\* self.blacklist_ = find_zero_variance_features(dataframe=self.df_, ...)
Fit_find_zero_variance_features ==
    /\ pc = "find_zero_variance_features"
    /\ \E r \in {find_zero_variance_features(heap[self.df_],
                                            self.exclude_zero_variance_features)} :
           /\ heap' = [heap EXCEPT ![self.df_] = r.df]
           /\ self' = IF r.raised = "none" THEN [self EXCEPT !.blacklist_ = r.val] ELSE self
           /\ call' = Stage("find_zero_variance_features", heap[self.df_], r.raised)
           /\ pc' = After(r.raised, "get_treatment_features")
    /\ UNCHANGED input

\* self.treatment_features_ = get_treatment_features(dataframe=self.df_, ...)
Fit_get_treatment_features ==
    /\ pc = "get_treatment_features"
    /\ self' = [self EXCEPT !.treatment_features_ =
                    get_treatment_features(heap[self.df_], self.index_features,
                        self.datetime_features, self.target, self.blacklist_)]
    /\ call' = Stage("get_treatment_features", heap[self.df_], "none")
    /\ pc' = "reindex_target"
    /\ UNCHANGED <<heap, input>>

\* self.df_ = reindex_target(dataframe=self.df_, target=self.target): with a
\* target the reindexed table is a new object
Fit_reindex_target ==
    /\ pc = "reindex_target"
    /\ \E r \in {reindex_target(heap[self.df_], self.target)} :
           /\ IF r.raised = "none" /\ self.target # None
              THEN /\ heap' = Append(heap, r.df)
                   /\ self' = [self EXCEPT !.df_ = Len(heap) + 1]
              ELSE UNCHANGED <<heap, self>>
           /\ call' = Stage("reindex_target", heap[self.df_], r.raised)
           /\ pc' = After(r.raised, "cast_to_int")
    /\ UNCHANGED input

\* self.df_.loc[:, self.treatment_features_] = cast_to_int(dataframe=self.df_,
\* ...): cast_to_int casts in place and returns the same table, so the
\* assignment stores each treatment column onto itself
Fit_cast_to_int ==
    /\ pc = "cast_to_int"
    /\ \E r \in {cast_to_int(heap[self.df_], self.treatment_features_)} :
           /\ heap' = [heap EXCEPT ![self.df_] = r.df]
           /\ call' = Stage("cast_to_int", heap[self.df_], r.raised)
           /\ pc' = After(r.raised, "get_column_dtypes")
    /\ UNCHANGED <<self, input>>

\* self.int_features_, ... = get_column_dtypes(dataframe=self.df_, ...)
Fit_get_column_dtypes ==
    /\ pc = "get_column_dtypes"
    /\ \E r \in {get_column_dtypes(heap[self.df_], self.treatment_features_)} :
           self' = [self EXCEPT !.int_features_ = r.int_features,
                                !.float_features_ = r.float_features,
                                !.object_features_ = r.object_features,
                                !.bool_features_ = r.bool_features]
    /\ call' = Stage("get_column_dtypes", heap[self.df_], "none")
    /\ pc' = "find_high_cardinality_features"
    /\ UNCHANGED <<heap, input>>

\* self.high_cardinality_features_, self.categorical_features_ =
\*     find_high_cardinality_features(dataframe=self.df_,
\*         object_features=self.object_features_,
\*         rare_level_threshold=0.02, allowable_rare_percentage=0.1)
Fit_find_high_cardinality_features ==
    /\ pc = "find_high_cardinality_features"
    /\ \E r \in {find_high_cardinality_features(heap[self.df_], self.object_features_,
                    DefaultRareLevelThreshold, DefaultAllowableRarePercentage)} :
           self' = [self EXCEPT !.high_cardinality_features_ = r.high_cardinality,
                                !.categorical_features_ = r.categorical]
    /\ call' = Stage("find_high_cardinality_features", heap[self.df_], "none")
    /\ pc' = "fitted"
    /\ UNCHANGED <<heap, input>>

NextDesign ==
    \/ Fit_copy
    \/ Fit_find_hidden_dtypes
    \/ Fit_fill_missing_values
    \/ Fit_find_zero_variance_features
    \/ Fit_get_treatment_features
    \/ Fit_reindex_target
    \/ Fit_cast_to_int
    \/ Fit_get_column_dtypes
    \/ Fit_find_high_cardinality_features

SpecDesign == InitDesign /\ [][NextDesign]_vars

(***************************************************************************)
(* Properties of the cardinality split.                                    *)
(***************************************************************************)
SplitReturned == pc = "returned" /\ call.fn = "find_high_cardinality_features"
SplitMethodReturned == pc = "returned" /\ call.fn = "_find_high_cardinality_features"

\* every two rows of the column hold different entries (two missing entries
\* are the same entry)
AllDistinct(vals) == \A i, j \in DOMAIN vals : i # j => vals[i] # vals[j]

\* the rows holding a rare level: a value whose share of the rows is at most thr
RareRows(vals, thr) ==
    {i \in DOMAIN vals :
        /\ ~isnull(vals[i])
        /\ DivLeq(Cardinality({j \in DOMAIN vals : vals[j] = vals[i]}), Len(vals), thr)}

\* the share of the rows holding a rare level exceeds max
RareShareExceeds(vals, thr, max) ==
    Cardinality(RareRows(vals, thr)) * max.den > max.num * Len(vals)

\* C1: the two lists find_high_cardinality_features returns are disjoint and
\* together hold exactly the names of its input list, each once.
C1_SplitPartitionsInput ==
    SplitReturned =>
        LET high == call.result.high_cardinality
            cat == call.result.categorical
        IN  /\ ToSet(high) \cap ToSet(cat) = {}
            /\ ToSet(high) \cup ToSet(cat) = ToSet(call.object_features)
            /\ Len(high) + Len(cat) = Len(call.object_features)

C1_Witness ==
    /\ SplitReturned
    /\ Len(call.result.high_cardinality) = 1
    /\ Len(call.result.categorical) = 1

\* C2: _find_high_cardinality_features classifies a text column as
\* high-cardinality if all its n entries are distinct; otherwise a value is
\* rare iff count / n <= rare_level_threshold, and the column is
\* high-cardinality iff (rows of rare values) / n > max_rare_percentage.
C2_SplitRule ==
    SplitMethodReturned =>
        \A f \in ToSet(self.object_features_) :
            LET vals == loc(input, f).vals
            IN  InList(f, self.high_cardinality_features_)
                <=> IF AllDistinct(vals) THEN TRUE
                    ELSE RareShareExceeds(vals, self.rare_level_threshold,
                                          self.max_rare_percentage)

\* a column with a repeated value and a level exactly at the threshold (so
\* rare), whose rare share equals the maximum (so categorical)
C2_Witness ==
    /\ SplitMethodReturned
    /\ \E g \in ToSet(self.object_features_) :
        LET gv == loc(input, g).vals
        IN  /\ ~AllDistinct(gv)
            /\ ~InList(g, self.high_cardinality_features_)
            /\ Cardinality(RareRows(gv, self.rare_level_threshold))
                   * self.max_rare_percentage.den
               = self.max_rare_percentage.num * Len(gv)
            /\ \E i \in RareRows(gv, self.rare_level_threshold) :
                  Cardinality({j \in DOMAIN gv : gv[j] = gv[i]})
                         * self.rare_level_threshold.den
                     = self.rare_level_threshold.num * Len(gv)

\* C4 as stated: a column is high-cardinality exactly when its rare share
\* exceeds the allowable percentage.
C4_HighIffRareShareExceeds ==
    SplitReturned =>
        \A f \in ToSet(call.object_features) :
            InList(f, call.result.high_cardinality)
            <=> RareShareExceeds(loc(input, f).vals, call.rare_level_threshold,
                                 call.allowable_rare_percentage)

\* C4 amended: a column is high-cardinality exactly when all its entries are
\* distinct or its rare share exceeds the allowable percentage.
C4_HighIffDistinctOrRareShareExceeds ==
    SplitReturned =>
        \A f \in ToSet(call.object_features) :
            InList(f, call.result.high_cardinality)
            <=> \/ AllDistinct(loc(input, f).vals)
                \/ RareShareExceeds(loc(input, f).vals, call.rare_level_threshold,
                                    call.allowable_rare_percentage)

\* a column of several rows, all distinct, none of them rare
C4_Witness ==
    /\ SplitReturned
    /\ \E f \in ToSet(call.object_features) :
        LET vals == loc(input, f).vals
        IN  /\ Len(vals) > 1
            /\ AllDistinct(vals)
            /\ RareRows(vals, call.rare_level_threshold) = {}
            /\ InList(f, call.result.high_cardinality)

(***************************************************************************)
(* Properties of TreatmentDesign.fit (avatreat/preprocessing/design.py).   *)
(***************************************************************************)
Fitted == pc = "fitted"
ZeroVarianceReturned ==
    /\ call.fn = "find_zero_variance_features"
    /\ call.raised = "none"
    /\ pc = "get_treatment_features"

\* C3: fit classifies the text columns with the thresholds given to the
\* constructor: the high-cardinality and categorical lists fit stores are
\* those the split yields for the configured rare_level_threshold and
\* allowable_rare_percentage.
C3_FitSplitsWithConfiguredThresholds ==
    Fitted =>
        [high_cardinality |-> self.high_cardinality_features_,
         categorical |-> self.categorical_features_]
        = find_high_cardinality_features(heap[self.df_], self.object_features_,
              self.rare_level_threshold, self.allowable_rare_percentage)

\* the names of the integer, float and text columns of a table that hold
\* fewer than two distinct values, text compared upper-cased and trimmed
FewerThanTwoDistinct(df) ==
    {df[i].name : i \in {j \in DOMAIN df :
        \/ /\ df[j].dtype \in INT_DTYPES \cup FLOAT_DTYPES
           /\ \A k, l \in DOMAIN df[j].vals : df[j].vals[k] = df[j].vals[l]
        \/ /\ df[j].dtype \in OBJECT_DTYPES
           /\ \A k, l \in DOMAIN df[j].vals :
                  strip(upper(df[j].vals[k].s)) = strip(upper(df[j].vals[l].s))}}

\* C5: zero-variance detection returns exactly the integer, float and text
\* columns of the table it is given that have fewer than two distinct
\* values, text compared after upper-casing and trimming, each once; with
\* exclude_zero_variance_features off it returns the empty list.
C5_ZeroVarianceExact ==
    ZeroVarianceReturned =>
        IF self.exclude_zero_variance_features
        THEN /\ ToSet(self.blacklist_) = FewerThanTwoDistinct(call.before)
             /\ Len(self.blacklist_) = Cardinality(FewerThanTwoDistinct(call.before))
        ELSE self.blacklist_ = <<>>

\* a table of several rows where the column of "a" and " A " is flagged and
\* the column of "a" and "b" is not
C5_Witness ==
    /\ ZeroVarianceReturned
    /\ self.exclude_zero_variance_features
    /\ nrows(call.before) >= 2
    /\ InList("z", self.blacklist_)
    /\ InList("w", columns(call.before))
    /\ ~InList("w", self.blacklist_)

\* C10: the table passed to fit holds the same columns, order, dtypes and
\* entries as before the call, in every state of fit, whether it returns
\* or raises.
C10_CallersTableUnchanged == heap[1] = input

\* fit has run to its end on a working table it changed
C10_Witness ==
    /\ Fitted
    /\ self.df_ # 1
    /\ columns(heap[self.df_]) = columns(input)
    /\ heap[self.df_] # input

(***************************************************************************)
(* SpecFill: the missing-value fill of each class applied once and then    *)
(* again to the table it produced.                                         *)
(***************************************************************************)
TDDefaults ==
    [index_feature |-> None,
     target |-> None,
     exclude_zero_variance_features |-> TRUE,
     missing_numerical_strategy |-> systematically,
     numerical_fill_value |-> FloatC(-2),
     categorical_fill_value |-> s_NA,
     rare_level_threshold |-> DefaultRareLevelThreshold,
     allowable_rare_percentage |-> DefaultAllowableRarePercentage]

\* the columns named "c" of n entries, of each dtype the fill meets
FillColumns(n) ==
    {Column("c", "object", v) : v \in [1..n -> {s_a, s_NA, NaN}]}
    \cup {Column("c", "category", v) : v \in [1..n -> {s_a, NaN}]}
    \cup {Column("c", "int64", v) : v \in [1..n -> {IntC(0), IntC(1)}]}
    \cup {Column("c", "float64", v) : v \in [1..n -> {FloatC(2), FloatC(3), NaN}]}
    \cup {Column("c", "datetime64", v) : v \in [1..n -> {Timestamp, NaN}]}

\* a column "c" alone, or beside the text column "x" or the float column "u"
FillTables ==
    UNION {
        {<<c>> : c \in FillColumns(n)}
        \cup {<<c, PoolColumn("x", n)>> : c \in FillColumns(n)}
        \cup {<<PoolColumn("u", n), c>> : c \in FillColumns(n)}
        : n \in 1..MaxRows}

FillValues == {FloatC(-2), FloatC(3)}
Strategies == {systematically, "random"}

\* the three objects that fill: a FeaturePreprocessor and a TreatmentDesign
\* of treatment_design.py holding the lists of their _get_dtypes, and a
\* TreatmentDesign of design.py
Fillers(df) ==
    {store_dtypes(FeaturePreprocessor([FPDefaults EXCEPT
            !.missing_numerical_strategy = strategy, !.numerical_fill_value = nfv]),
        FP_get_dtypes(FPDefaults, df).val) : strategy \in Strategies, nfv \in FillValues}
    \cup {store_dtypes(TreatmentDesign_td([TDDefaults EXCEPT
            !.missing_numerical_strategy = strategy, !.numerical_fill_value = nfv]),
        TD_get_dtypes(df)) : strategy \in Strategies, nfv \in FillValues}
    \cup {TreatmentDesign([DesignDefaults EXCEPT
            !.missing_numerical_strategy = strategy, !.numerical_fill_value = nfv]) :
        strategy \in Strategies, nfv \in FillValues}

InitFill ==
    \E df \in FillTables :
        \E obj \in Fillers(df) :
            /\ heap = <<df>>
            /\ input = df
            /\ self = [obj EXCEPT !.df_ = 1]
            /\ pc = "fill"
            /\ call = NoCall

AfterFill(raised) ==
    IF raised # "none" THEN "raised" ELSE IF pc = "fill" THEN "filled" ELSE "refilled"

\* self.df_ = self._fill_missing_values() on a FeaturePreprocessor: the
\* filled copy becomes the working table
Fill_FP ==
    /\ pc \in {"fill", "filled"}
    /\ self.cls = "FeaturePreprocessor"
    /\ \E r \in {FP_fill_missing_values(self, heap[self.df_])} :
           /\ IF r.raised = "none"
              THEN /\ heap' = Append(heap, r.df)
                   /\ self' = [self EXCEPT !.df_ = Len(heap) + 1]
              ELSE UNCHANGED <<heap, self>>
           /\ call' = Stage("_fill_missing_values", heap[self.df_], r.raised)
           /\ pc' = AfterFill(r.raised)
    /\ UNCHANGED input

\* self._fill_missing_values() on a TreatmentDesign of treatment_design.py
Fill_TD ==
    /\ pc \in {"fill", "filled"}
    /\ self.cls = "TreatmentDesign_td"
    /\ \E r \in {TD_fill_missing_values(self, heap[self.df_])} :
           /\ heap' = [heap EXCEPT ![self.df_] = r.df]
           /\ call' = Stage("_fill_missing_values", heap[self.df_], r.raised)
           /\ pc' = AfterFill(r.raised)
    /\ UNCHANGED <<self, input>>

\* self.df_ = fill_missing_values(dataframe=self.df_, ...) on a
\* TreatmentDesign of design.py
Fill_utils ==
    /\ pc \in {"fill", "filled"}
    /\ self.cls = "TreatmentDesign"
    /\ \E r \in {fill_missing_values(heap[self.df_], self.numerical_fill_value,
                                    self.categorical_fill_value)} :
           /\ heap' = [heap EXCEPT ![self.df_] = r.df]
           /\ call' = Stage("fill_missing_values", heap[self.df_], r.raised)
           /\ pc' = AfterFill(r.raised)
    /\ UNCHANGED <<self, input>>

NextFill == Fill_FP \/ Fill_TD \/ Fill_utils

SpecFill == InitFill /\ [][NextFill]_vars

(***************************************************************************)
(* Properties of the missing-value fill.                                   *)
(***************************************************************************)
\* the value the fill is to put in a missing entry of a column of a dtype
FillValueFor(dtype) ==
    IF dtype \in OBJECT_DTYPES \cup CATEGORICAL_DTYPES THEN self.categorical_fill_value
    ELSE IF dtype \in INT_DTYPES THEN int_of(self.numerical_fill_value).val
    ELSE self.numerical_fill_value

\* C6: after the fill no text, categorical, integer or float column holds a
\* missing entry: an entry that was missing holds the fill value of its
\* bucket and every other entry is unchanged.
C6_FillLeavesNoMissing ==
    pc = "filled" =>
        \A i \in DOMAIN call.before :
            call.before[i].dtype \in OBJECT_DTYPES \cup CATEGORICAL_DTYPES
                                     \cup INT_DTYPES \cup FLOAT_DTYPES
            => /\ heap[self.df_][i].name = call.before[i].name
               /\ \A j \in DOMAIN call.before[i].vals :
                      heap[self.df_][i].vals[j] =
                          IF isnull(call.before[i].vals[j])
                          THEN FillValueFor(call.before[i].dtype)
                          ELSE call.before[i].vals[j]

\* C7: the fill applied to the table a fill produced leaves that table as
\* it is.
C7_FillIdempotent == pc = "refilled" => heap[self.df_] = call.before

\* a second fill after a first one that replaced a missing entry
C7_Witness ==
    /\ pc = "refilled"
    /\ call.before # input
    /\ heap[self.df_] = call.before

\* the float entries of a column that are not missing
Present(vals) == {j \in DOMAIN vals : ~isnull(vals[j])}
RECURSIVE SumHalves(_, _)
SumHalves(vals, js) ==
    IF js = {} THEN 0
    ELSE LET j == CHOOSE k \in js : TRUE
         IN  vals[j].n + SumHalves(vals, js \ {j})

\* C8: under the strategy "random" the fill of a TreatmentDesign completes
\* without error and every missing entry of a float column holds the mean
\* of the entries of the column that were present before the fill.
C8_RandomFillsFloatsWithMean ==
    /\ self.cls = "TreatmentDesign_td"
    /\ self.missing_numerical_strategy = "random"
    /\ pc \in {"filled", "raised"}
    => /\ call.raised = "none"
       /\ \A i \in DOMAIN call.before :
              call.before[i].dtype \in FLOAT_DTYPES /\ Present(call.before[i].vals) # {}
              => \A j \in DOMAIN call.before[i].vals \ Present(call.before[i].vals) :
                     /\ heap[self.df_][i].vals[j].t = "float"
                     /\ heap[self.df_][i].vals[j].n * Cardinality(Present(call.before[i].vals))
                            = SumHalves(call.before[i].vals, Present(call.before[i].vals))

(***************************************************************************)
(* FeaturePreprocessor.fit of avatreat/old/preprocessing, one action per   *)
(* group of statements.                                                    *)
(***************************************************************************)
FPPoolNames == <<"i", "y", "w", "x", "z", "nn", "u", "zz", "t", "tz", "d">>
FPTables == PoolTables(FPPoolNames)

FPConfigs ==
    {[FPDefaults EXCEPT !.index_feature = ix, !.target_feature = tg,
                        !.find_hidden_numerics = hn,
                        !.exclude_zero_variance_features = zv,
                        !.floats_to_ints = f2i] :
        ix \in {None, "i"}, tg \in {None, "y"}, hn \in BOOLEAN, zv \in BOOLEAN,
        f2i \in BOOLEAN}

InitFP ==
    \E df \in FPTables, kw \in FPConfigs :
        /\ heap = <<df>>
        /\ input = df
        /\ self = FeaturePreprocessor(kw)
        /\ pc = "copy"
        /\ call = NoCall

\* self.is_fitted_ = False; self.df_ = X.copy(); self.excluded_features_ =
\* the target and the index feature that are not None
FPFit_copy ==
    /\ pc = "copy"
    /\ \E r \in {DF_copy(heap, 1)} :
           /\ heap' = r.heap
           /\ self' = [self EXCEPT
                  !.is_fitted_ = "False",
                  !.df_ = r.ref,
                  !.excluded_features_ =
                      (IF self.target_feature # None THEN <<self.target_feature>> ELSE <<>>)
                      \o (IF self.index_feature # None THEN <<self.index_feature>> ELSE <<>>)]
    /\ call' = Stage("copy", heap[1], "none")
    /\ pc' = "_get_dtypes"
    /\ UNCHANGED input

\* the eight bucket lists = self._get_dtypes()
FPFit_get_dtypes ==
    /\ pc = "_get_dtypes"
    /\ \E r \in {FP_get_dtypes(self, heap[self.df_])} :
           /\ self' = IF r.raised = "none" THEN store_dtypes(self, r.val) ELSE self
           /\ call' = Stage("_get_dtypes", heap[self.df_], r.raised)
           /\ pc' = After(r.raised, "_find_hidden_numerics")
    /\ UNCHANGED <<heap, input>>

\* the hidden numerics when find_hidden_numerics is True, empty lists
\* otherwise; self.removable_features_ = self._get_removable_features()
FPFit_find_hidden_numerics ==
    /\ pc = "_find_hidden_numerics"
    /\ \E r \in {IF self.find_hidden_numerics
                 THEN FP_find_hidden_numerics(self, heap[self.df_])
                 ELSE [hidden_ints |-> <<>>, hidden_floats |-> <<>>]} :
           self' = [self EXCEPT !.hidden_ints_ = r.hidden_ints,
                                !.hidden_floats_ = r.hidden_floats,
                                !.removable_features_ = FP_get_removable_features(self)]
    /\ call' = Stage("_find_hidden_numerics", heap[self.df_], "none")
    /\ pc' = "_find_zero_variance_features"
    /\ UNCHANGED <<heap, input>>

\* the zero-variance features when exclude_zero_variance_features is True,
\* the empty list otherwise
FPFit_find_zero_variance_features ==
    /\ pc = "_find_zero_variance_features"
    /\ self' = [self EXCEPT !.zero_variance_features_ =
                    IF self.exclude_zero_variance_features
                    THEN FP_find_zero_variance_features(self, heap[self.df_])
                    ELSE <<>>]
    /\ call' = Stage("_find_zero_variance_features", heap[self.df_], "none")
    /\ pc' = "_get_treatment_features"
    /\ UNCHANGED <<heap, input>>

\* self.treatment_features_ = self._get_treatment_features();
\* self.features_with_nans_ = self._find_nan_features()
FPFit_get_treatment_features ==
    /\ pc = "_get_treatment_features"
    /\ self' = [self EXCEPT
           !.treatment_features_ = FP_get_treatment_features(self, heap[self.df_]),
           !.features_with_nans_ = FP_find_nan_features(heap[self.df_])]
    /\ call' = Stage("_get_treatment_features", heap[self.df_], "none")
    /\ pc' = "_cast_to_int"
    /\ UNCHANGED <<heap, input>>

\* the integer castables when floats_to_ints is True, the empty list otherwise
FPFit_cast_to_int ==
    /\ pc = "_cast_to_int"
    /\ self' = [self EXCEPT !.integer_castables_ =
                    IF self.floats_to_ints THEN FP_cast_to_int(self, heap[self.df_])
                    ELSE <<>>]
    /\ call' = Stage("_cast_to_int", heap[self.df_], "none")
    /\ pc' = "_find_high_cardinality_features"
    /\ UNCHANGED <<heap, input>>

\* self.high_cardinality_features_ = self._find_high_cardinality_features();
\* self.is_fitted_ = True
FPFit_find_high_cardinality_features ==
    /\ pc = "_find_high_cardinality_features"
    /\ self' = [self EXCEPT
           !.high_cardinality_features_ =
               FP_find_high_cardinality_features(self, heap[self.df_]),
           !.is_fitted_ = "True"]
    /\ call' = Stage("_find_high_cardinality_features", heap[self.df_], "none")
    /\ pc' = "fitted"
    /\ UNCHANGED <<heap, input>>

\* self.transform(), called on the object as constructed, after a fit that
\* raised, or after fit returned
FPTransform ==
    /\ pc \in {"copy", "raised", "fitted"}
    /\ \E r \in {FP_transform(self, heap)} :
           /\ self' = r.self
           /\ heap' = r.heap
           /\ call' = Stage("transform", [self |-> self, heap |-> heap], r.raised)
           /\ pc' = IF r.raised = "none" THEN "transformed" ELSE "transform raised"
    /\ UNCHANGED input

NextFP ==
    \/ FPTransform
    \/ FPFit_copy
    \/ FPFit_get_dtypes
    \/ FPFit_find_hidden_numerics
    \/ FPFit_find_zero_variance_features
    \/ FPFit_get_treatment_features
    \/ FPFit_cast_to_int
    \/ FPFit_find_high_cardinality_features

SpecFP == InitFP /\ [][NextFP]_vars

(***************************************************************************)
(* Properties of FeaturePreprocessor.fit.                                  *)
(***************************************************************************)
\* C9: after fit treatment_features_ is the columns of the stored table, in
\* table order, that are neither excluded (index, target) nor removable
\* (datetime, datetime with timezone, timedelta) nor of zero variance.
C9_TreatmentFeaturesExact ==
    Fitted =>
        self.treatment_features_ =
            SelectSeq(columns(heap[self.df_]), LAMBDA name :
                /\ name \notin {self.index_feature, self.target_feature}
                /\ loc(heap[self.df_], name).dtype \notin
                       DATETIME_DTYPES \cup DATETIMETZ_DTYPES \cup TIMEDELTAS
                /\ ~InList(name, self.zero_variance_features_))

\* a fit that kept a column and left out an excluded, a removable and a
\* zero-variance column
C9_Witness ==
    /\ Fitted
    /\ self.treatment_features_ # <<>>
    /\ self.excluded_features_ # <<>>
    /\ self.removable_features_ # <<>>
    /\ self.zero_variance_features_ # <<>>

\* the first and the last column name of a table
first_column(df) == columns(df)[1]
last_column(df) == columns(df)[Len(df)]

(***************************************************************************)
(* TreatmentDesign.fit of avatreat/preprocessing/treatment_design.py, one  *)
(* action per group of statements.                                         *)
(***************************************************************************)
TDConfigs ==
    {[TDDefaults EXCEPT !.index_feature = ix, !.target = tg,
                        !.exclude_zero_variance_features = zv,
                        !.missing_numerical_strategy = strategy] :
        ix \in {None, "i"}, tg \in {None, "y", "u"}, zv \in BOOLEAN,
        strategy \in Strategies}

InitTD ==
    \E df \in FPTables, kw \in TDConfigs :
        /\ heap = <<df>>
        /\ input = df
        /\ self = TreatmentDesign_td(kw)
        /\ pc = "copy"
        /\ call = NoCall

\* self.df_ = DF.copy(); self.excluded_features_ = the target and the
\* index feature that are not None
TDFit_copy ==
    /\ pc = "copy"
    /\ \E r \in {DF_copy(heap, 1)} :
           /\ heap' = r.heap
           /\ self' = [self EXCEPT
                  !.df_ = r.ref,
                  !.excluded_features_ =
                      (IF self.target # None THEN <<self.target>> ELSE <<>>)
                      \o (IF self.index_feature # None THEN <<self.index_feature>> ELSE <<>>)]
    /\ call' = Stage("copy", heap[1], "none")
    /\ pc' = "_get_dtypes"
    /\ UNCHANGED input

\* the eight bucket lists = self._get_dtypes(); the datetime, timezone and
\* timedelta features are added to self.excluded_features_
TDFit_get_dtypes ==
    /\ pc = "_get_dtypes"
    /\ \E b \in {TD_get_dtypes(heap[self.df_])} :
           self' = [store_dtypes(self, b) EXCEPT
                       !.excluded_features_ = @ \o b.dttz \o b.dts \o b.tds]
    /\ call' = Stage("_get_dtypes", heap[self.df_], "none")
    /\ pc' = "_fill_missing_values"
    /\ UNCHANGED <<heap, input>>

\* self._fill_missing_values()
TDFit_fill_missing_values ==
    /\ pc = "_fill_missing_values"
    /\ \E r \in {TD_fill_missing_values(self, heap[self.df_])} :
           /\ heap' = [heap EXCEPT ![self.df_] = r.df]
           /\ call' = Stage("_fill_missing_values", heap[self.df_], r.raised)
           /\ pc' = After(r.raised, "_find_zero_variance_features")
    /\ UNCHANGED <<self, input>>

\* when exclude_zero_variance_features is True: the zero-variance features
\* are found and appended to self.excluded_features_
TDFit_find_zero_variance_features ==
    /\ pc = "_find_zero_variance_features"
    /\ \E o \in {IF ~self.exclude_zero_variance_features THEN Outcome("none", self, <<>>)
                  ELSE With(TD_find_zero_variance_features(self, heap[self.df_]), LAMBDA r :
                          IF r.raised # "none" THEN Outcome(r.raised, self, <<>>)
                          ELSE TD_exclude_zero_variance(self, r.val))} :
           /\ self' = o.self
           /\ call' = Stage("_find_zero_variance_features", heap[self.df_], o.raised)
           /\ pc' = After(o.raised, "_get_treatment_features")
    /\ UNCHANGED <<heap, input>>

\* self.treatment_features_ = self._get_treatment_features(); return self
TDFit_get_treatment_features ==
    /\ pc = "_get_treatment_features"
    /\ self' = [self EXCEPT
           !.treatment_features_ = TD_get_treatment_features(self, heap[self.df_])]
    /\ call' = Stage("_get_treatment_features", heap[self.df_], "none")
    /\ pc' = "fitted"
    /\ UNCHANGED <<heap, input>>

NextTD ==
    \/ TDFit_copy
    \/ TDFit_get_dtypes
    \/ TDFit_fill_missing_values
    \/ TDFit_find_zero_variance_features
    \/ TDFit_get_treatment_features

SpecTD == InitTD /\ [][NextTD]_vars

\* C17: fit does not return when the configured target or index feature
\* is no column of the table it was given; it raises instead.
C17_FitRejectsAbsentNames ==
    Fitted =>
        /\ self.target # None => InList(self.target, columns(input))
        /\ self.index_feature # None => InList(self.index_feature, columns(input))

(***************************************************************************)
(* SpecHidden: the hidden-dtype recovery of each class applied to tables   *)
(* whose text column "c" holds numbers, truth values, other text and       *)
(* missing entries.                                                        *)
(***************************************************************************)
s_1_5 == Str(<<"1", ".", "5">>)
s_true_led == Str(<<" ", "t", "r", "u", "e">>)

HiddenValues == {s_1, s_1_5, s_a, s_empty, NaN, s_true, s_False_padded, s_true_led}

\* the text column "c" alone, before the text column "b" or after the text
\* column "nn"; the float column "u" alone
HiddenTables ==
    UNION {
        {<<Column("c", "object", v)>> : v \in [1..n -> HiddenValues]}
        \cup {<<Column("c", "object", v), PoolColumn("b", n)>> : v \in [1..n -> HiddenValues]}
        \cup {<<PoolColumn("nn", n), Column("c", "object", v)>> : v \in [1..n -> HiddenValues]}
        \cup {<<PoolColumn("u", n)>>}
        : n \in 1..MaxRows}

\* the objects that recover hidden dtypes: a TreatmentDesign of design.py,
\* and a FeaturePreprocessor and a TreatmentDesign of treatment_design.py
\* holding the lists of their _get_dtypes
HiddenObjects(df) ==
    {TreatmentDesign(DesignDefaults)}
    \cup {store_dtypes(FeaturePreprocessor([FPDefaults EXCEPT
            !.find_hidden_numerics = TRUE, !.numerical_fill_value = nfv]),
        FP_get_dtypes(FPDefaults, df).val) : nfv \in FillValues}
    \cup {store_dtypes(TreatmentDesign_td(TDDefaults), TD_get_dtypes(df))}

InitHidden ==
    \E df \in HiddenTables :
        \E obj \in HiddenObjects(df) :
            /\ heap = <<df>>
            /\ input = df
            /\ self = [obj EXCEPT !.df_ = 1]
            /\ pc = "start"
            /\ call = NoCall

\* self.df_ = find_hidden_dtypes(dataframe=self.df_) on a TreatmentDesign of
\* design.py; the table is changed in place
Hidden_find_hidden_dtypes ==
    /\ pc = "start"
    /\ self.cls = "TreatmentDesign"
    /\ \E r \in {find_hidden_dtypes(heap[self.df_])} :
           /\ heap' = [heap EXCEPT ![self.df_] = r.df]
           /\ call' = Stage("find_hidden_dtypes", heap[self.df_], r.raised)
           /\ pc' = After(r.raised, "returned")
    /\ UNCHANGED <<self, input>>

\* self.hidden_ints_, self.hidden_floats_ = self._find_hidden_numerics() on
\* a FeaturePreprocessor
Hidden_FP_find_hidden_numerics ==
    /\ pc = "start"
    /\ self.cls = "FeaturePreprocessor"
    /\ \E r \in {FP_find_hidden_numerics(self, heap[self.df_])} :
           self' = [self EXCEPT !.hidden_ints_ = r.hidden_ints,
                                !.hidden_floats_ = r.hidden_floats]
    /\ call' = Stage("_find_hidden_numerics", heap[self.df_], "none")
    /\ pc' = "returned"
    /\ UNCHANGED <<heap, input>>

\* self._find_hidden_dtypes() on a TreatmentDesign of treatment_design.py
Hidden_TD_find_hidden_dtypes ==
    /\ pc = "start"
    /\ self.cls = "TreatmentDesign_td"
    /\ \E r \in {TD_find_hidden_dtypes(self, heap[self.df_])} :
           /\ heap' = [heap EXCEPT ![self.df_] = r.df]
           /\ call' = Stage("_find_hidden_dtypes", heap[self.df_], r.raised)
           /\ pc' = After(r.raised, "returned")
    /\ UNCHANGED <<self, input>>

NextHidden ==
    \/ Hidden_find_hidden_dtypes
    \/ Hidden_FP_find_hidden_numerics
    \/ Hidden_TD_find_hidden_dtypes

SpecHidden == InitHidden /\ [][NextHidden]_vars

(***************************************************************************)
(* Properties of the hidden-dtype recovery.                                *)
(***************************************************************************)
\* every entry of the column that is not missing converts to a number
AllConvert(col) ==
    \A j \in DOMAIN col.vals :
        isnull(col.vals[j]) \/ to_numeric(col.vals[j]).raised = "none"

\* an entry of the column that is not missing is written with a fraction
SomeFraction(col) ==
    \E j \in DOMAIN col.vals :
        ~isnull(col.vals[j]) /\ to_numeric(col.vals[j]).val.t = "float"

\* the bucket the recovery is to put a text column in
NumericBucket(col) ==
    IF ~AllConvert(col) THEN "object"
    ELSE IF SomeFraction(col) THEN "float64" ELSE "int64"

\* C18: after the recovery a text column is in a numeric bucket exactly when
\* every entry that is not missing converts to a number, in the float bucket
\* when an entry needs a fraction and in the integer bucket otherwise; a
\* column with an entry that does not convert keeps its entries and is not
\* numeric.
C18_NumericRecoveryExact ==
    /\ call.fn = "find_hidden_dtypes" =>
           \A i \in DOMAIN call.before :
               call.before[i].dtype \in OBJECT_DTYPES =>
                   IF AllConvert(call.before[i])
                   THEN heap[self.df_][i].dtype = NumericBucket(call.before[i])
                   ELSE /\ heap[self.df_][i].dtype \notin NUMERICAL_DTYPES
                        /\ heap[self.df_][i].dtype \in OBJECT_DTYPES =>
                               heap[self.df_][i] = call.before[i]
    /\ call.fn = "_find_hidden_numerics" =>
           \A f \in ToSet(self.object_features_) :
               /\ InList(f, self.hidden_ints_)
                      <=> NumericBucket(loc(call.before, f)) = "int64"
               /\ InList(f, self.hidden_floats_)
                      <=> NumericBucket(loc(call.before, f)) = "float64"

\* a text case-folded and trimmed
folded(chars) == strip([i \in DOMAIN chars |-> lower_char(chars[i])])

s_false == Str(<<"f", "a", "l", "s", "e">>)

\* the entries of the column are texts whose distinct values, case-folded
\* and trimmed, are exactly "true" and "false"
TruthValued(col) ==
    /\ \A j \in DOMAIN col.vals : col.vals[j].t = "str"
    /\ {folded(col.vals[j].s) : j \in DOMAIN col.vals} = {s_true.s, s_false.s}

\* the column rewritten to truth values
AsBooleans(col) ==
    Column(col.name, "bool",
           [j \in DOMAIN col.vals |-> BoolC(folded(col.vals[j].s) = s_true.s)])

\* C19: when the recovery returns, a text column that failed numeric
\* recovery is a boolean column of its truth values exactly when its
\* distinct values, case-folded and trimmed, are "true" and "false"; every
\* other such column is as it was.
C19_BooleanRecoveryExact ==
    call.fn \in {"find_hidden_dtypes", "_find_hidden_dtypes"} /\ call.raised = "none" =>
        \A i \in DOMAIN call.before :
            call.before[i].dtype \in OBJECT_DTYPES /\ ~AllConvert(call.before[i]) =>
                heap[self.df_][i] = IF TruthValued(call.before[i])
                                    THEN AsBooleans(call.before[i])
                                    ELSE call.before[i]

\* the eight lists _get_dtypes fills
DtypeLists(obj) ==
    <<obj.object_features_, obj.boolean_features_, obj.integer_features_,
      obj.float_features_, obj.categorical_features_, obj.datetime_features_,
      obj.datetime_timezone_features_, obj.timedelta_features_>>

\* the two lists _find_hidden_numerics fills, once fit has assigned them
HiddenLists(obj) ==
    IF obj.hidden_ints_ = Unset THEN <<>> ELSE <<obj.hidden_ints_, obj.hidden_floats_>>

PairwiseDisjoint(lists) ==
    \A i, j \in DOMAIN lists : i < j => ToSet(lists[i]) \cap ToSet(lists[j]) = {}

\* C23: at every point of fit from _get_dtypes on, the eight bucket lists
\* and the two lists of recovered numerics are pairwise disjoint (a
\* recovered column is in no text list any more) and hold neither the
\* identifier nor the target.
C23_BucketsDisjoint ==
    self.object_features_ # Unset =>
        /\ PairwiseDisjoint(DtypeLists(self) \o HiddenLists(self))
        /\ \A i \in DOMAIN DtypeLists(self) :
               ToSet(DtypeLists(self)[i]) \cap {self.target_feature, self.index_feature} = {}

\* the columns of the caller's table that fit is to leave as they are: the
\* target, the identifier and the columns that are neither text nor
\* categorical nor integer nor float
KeptAsGiven(df, target, index_feature) ==
    {k \in DOMAIN df :
        \/ df[k].name \in {target, index_feature}
        \/ df[k].dtype \notin OBJECT_DTYPES \cup CATEGORICAL_DTYPES
                               \cup INT_DTYPES \cup FLOAT_DTYPES}

\* C24: at every point of fit the stored table holds the target column,
\* the identifier column and every column outside the text, categorical,
\* integer and float buckets with the entries of the caller's table,
\* missing entries included.
C24_FitKeepsOtherColumns ==
    self.df_ # NoFrame =>
        \A k \in KeptAsGiven(input, self.target, self.index_feature) :
            /\ InList(input[k].name, columns(heap[self.df_]))
            /\ loc(heap[self.df_], input[k].name) = input[k]

\* C25: the steps of fit that work column by column, the recovery of
\* hidden dtypes and the zero-variance detection, never end fit with an
\* error raised for one column.
C25_ColumnFailureNeverAbortsFit ==
    call.fn \in {"find_hidden_dtypes", "find_zero_variance_features"} =>
        call.raised = "none"

\* C26: the zero-variance detection and the float-to-int step of fit leave
\* the stored table as they found it, entries and dtypes.
C26_DetectionStepsArePure ==
    call.fn \in {"find_zero_variance_features", "cast_to_int"} =>
        heap[self.df_] = call.before

\* the names of the datetime, timezone-aware datetime and time-delta
\* columns of a table
Unsupported(df) ==
    {df[k].name : k \in {j \in DOMAIN df :
        df[j].dtype \in DATETIME_DTYPES \cup DATETIMETZ_DTYPES \cup TIMEDELTAS}}

C28_ZeroVarianceNotHighCardinality ==
    (Fitted /\ self.exclude_zero_variance_features) =>
        ToSet(self.zero_variance_features_) \cap ToSet(self.high_cardinality_features_) = {}

\* C29: with exclude_zero_variance_features on, the zero-variance step of
\* TreatmentDesign.fit does not raise, however many zero-variance columns
\* the table has, and after fit every zero-variance column is excluded
\* and none is a treatment feature.
C29_FitExcludesZeroVariance ==
    self.exclude_zero_variance_features =>
        /\ call.fn = "_find_zero_variance_features" => call.raised = "none"
        /\ pc = "fitted" =>
               /\ ToSet(self.zero_variance_features_) \subseteq ToSet(self.excluded_features_)
               /\ ToSet(self.zero_variance_features_) \cap ToSet(self.treatment_features_) = {}

(***************************************************************************)
(* SpecRefit: fit called on a table and then again, on the same object, on *)
(* another table. input is the table given to the fit called last.         *)
(***************************************************************************)
RefitNames == <<"y", "w", "z", "u", "t">>
RefitTables == PoolTables(RefitNames)

RefitObjects ==
    {FeaturePreprocessor(kw) : kw \in
        {[FPDefaults EXCEPT !.target_feature = tg, !.find_hidden_numerics = hn,
                            !.exclude_zero_variance_features = zv,
                            !.floats_to_ints = TRUE] :
            tg \in {None, "y"}, hn \in BOOLEAN, zv \in BOOLEAN}}
    \cup {FeaturePreprocessor_new(kw) : kw \in
        {[FPDefaults EXCEPT !.target_feature = tg, !.find_hidden_numerics = hn,
                            !.exclude_zero_variance_features = zv,
                            !.floats_to_ints = TRUE] :
            tg \in {None, "y"}, hn \in BOOLEAN, zv \in BOOLEAN}}
    \cup {TreatmentDesign_td(kw) : kw \in
        {[TDDefaults EXCEPT !.target = tg, !.exclude_zero_variance_features = zv] :
            tg \in {None, "y"}, zv \in BOOLEAN}}

InitRefit ==
    \E df \in RefitTables, obj \in RefitObjects :
        /\ heap = <<df>>
        /\ input = df
        /\ self = obj
        /\ pc = "constructed"
        /\ call = NoCall

\* fit of the object's class
fit_of(obj, h, X) ==
    IF obj.cls = "TreatmentDesign_td" THEN TD_fit(obj, h, X) ELSE FP_fit(obj, h, X)

\* self.fit(X) on the table the object was constructed beside
Refit_fit ==
    /\ pc = "constructed"
    /\ \E r \in {fit_of(self, heap, 1)} :
           /\ self' = r.self
           /\ heap' = r.heap
           /\ call' = Stage("fit", self, r.raised)
           /\ pc' = IF r.raised = "none" THEN "fitted" ELSE "raised"
    /\ UNCHANGED input

\* self.fit(X) once more, on any table, after the first fit returned or raised
Refit_fit_again ==
    /\ pc \in {"fitted", "raised"}
    /\ \E df \in RefitTables :
           /\ input' = df
           /\ \E r \in {fit_of(self, Append(heap, df), Len(heap) + 1)} :
                  /\ self' = r.self
                  /\ heap' = r.heap
                  /\ call' = Stage("fit", self, r.raised)
                  /\ pc' = IF r.raised = "none" THEN "refitted" ELSE "refit raised"

\* transform of the object's class
transform_of(obj, h) ==
    IF obj.cls = "FeaturePreprocessor_new" THEN FP_new_transform(obj, h)
    ELSE FP_transform(obj, h)

\* self.transform() after the first fit returned, and once more after
\* that; call.before keeps the object as fit left it
Refit_transform ==
    /\ pc \in {"fitted", "transformed", "transform raised"}
    /\ self.cls # "TreatmentDesign_td"
    /\ \E r \in {transform_of(self, heap)} :
           /\ self' = r.self
           /\ heap' = r.heap
           /\ call' = Stage("transform", IF call.fn = "transform" THEN call.before ELSE self,
                            r.raised)
           /\ pc' = IF pc = "fitted"
                    THEN (IF r.raised = "none" THEN "transformed" ELSE "transform raised")
                    ELSE (IF r.raised = "none" THEN "transformed twice"
                          ELSE "transform raised twice")
    /\ UNCHANGED input

NextRefit == Refit_fit \/ Refit_fit_again \/ Refit_transform

SpecRefit == InitRefit /\ [][NextRefit]_vars

(***************************************************************************)
(* Properties of repeated fits.                                            *)
(***************************************************************************)
\* a new object of the class and configuration of the given one
Fresh(obj) ==
    IF obj.cls = "TreatmentDesign_td"
    THEN TreatmentDesign_td([obj EXCEPT !.numerical_fill_value = TDDefaults.numerical_fill_value])
    ELSE IF obj.cls = "FeaturePreprocessor_new" THEN FeaturePreprocessor_new(obj)
    ELSE FeaturePreprocessor(obj)

\* the attributes of an object and the table it stores
FittedState(obj, h) == [attributes |-> [obj EXCEPT !.df_ = NoFrame], df_ |-> h[obj.df_]]

\* C21: after fit(A) and then fit(B) every attribute of the object, the
\* stored table included, is what a new object of the same configuration
\* holds after fit(B) alone.
C21_SecondFitReplacesState ==
    pc = "refitted" =>
        \E r \in {fit_of(Fresh(self), <<input>>, 1)} :
            FittedState(self, heap) = FittedState(r.self, r.heap)

\* the second fit returned on an object whose first fit had excluded the
\* target and found zero-variance features that the second table lacks
C21_Witness ==
    /\ pc = "refitted"
    /\ call.before.excluded_features_ \notin {<<>>, Unset}
    /\ call.before.zero_variance_features_ \notin {<<>>, Unset}
    /\ self.zero_variance_features_ = <<>>
    /\ heap[self.df_] # heap[call.before.df_]

\* the lists in which fit records what it decided about the columns
Decisions(obj) ==
    [excluded |-> obj.excluded_features_,
     removable |-> obj.removable_features_,
     zero_variance |-> obj.zero_variance_features_,
     treatment |-> obj.treatment_features_,
     high_cardinality |-> obj.high_cardinality_features_,
     integer_castables |-> obj.integer_castables_]

\* C22: after one transform call and after two, whether they return or
\* raise, the excluded, removable, zero-variance, treatment,
\* high-cardinality and castable lists are those fit stored.
C22_TransformKeepsDecisions ==
    call.fn = "transform" => Decisions(self) = Decisions(call.before)

\* transform was called twice on a fitted object with a target that holds
\* zero-variance and treatment features, and replaced the stored table
C22_Witness ==
    /\ pc \in {"transformed twice", "transform raised twice"}
    /\ self.target_feature # None
    /\ self.zero_variance_features_ \notin {<<>>, Unset}
    /\ self.treatment_features_ # <<>>
    /\ self.df_ # call.before.df_

\* C30: after a fit call of a FeaturePreprocessor is_fitted_ is True
\* when the call returned and False when it raised, also when the fit
\* before it on the same object had returned.
C30_FlagTracksLifecycle ==
    (call.fn = "fit" /\ self.cls # "TreatmentDesign_td") =>
        self.is_fitted_ = (IF call.raised = "none" THEN "True" ELSE "False")

(***************************************************************************)
(* SpecMove: the column moves applied to tables of every column order.     *)
(* pc tells which moves were made: "back" after the target was moved last, *)
(* "front" after the index feature was moved first.                        *)
(***************************************************************************)
MoveNames == <<"i", "y", "w", "u">>

\* the lists of distinct names of MoveNames, up to MaxCols long
MoveOrders ==
    {o \in UNION {[1..k -> ToSet(MoveNames)] : k \in 1..MaxCols} :
        \A a, b \in DOMAIN o : a # b => o[a] # o[b]}

\* the tables of those columns in those orders
MoveTables ==
    {[k \in DOMAIN o |-> PoolColumn(o[k], n)] : o \in MoveOrders, n \in 1..MaxRows}

\* a name no table has
s_absent == "q"

InitMove ==
    \E df \in MoveTables, tg \in {"y", s_absent}, ix \in {"i", s_absent} :
        /\ heap = <<df>>
        /\ input = df
        /\ self = [FeaturePreprocessor([FPDefaults EXCEPT !.target_feature = tg,
                                                           !.index_feature = ix])
                       EXCEPT !.df_ = 1]
        /\ pc = "start"
        /\ call = NoCall

\* the table a move returned (when it did not raise) becomes self.df_
AfterMove(fn, r, next) ==
    /\ \E o \in {IF r.raised = "none" THEN FP_set_df(Outcome("none", self, heap), r.df)
                  ELSE Outcome(r.raised, self, heap)} :
           /\ heap' = o.heap
           /\ self' = o.self
    /\ call' = Stage(fn, heap[self.df_], r.raised)
    /\ pc' = After(r.raised, next)
    /\ UNCHANGED input

\* self._reindex_target()
Move_FP_reindex_target ==
    /\ pc \in {"start", "front"}
    /\ \E r \in {FP_reindex_target(self, heap[self.df_])} :
           AfterMove("_reindex_target", [raised |-> r.raised, df |-> r.val],
                     IF pc = "start" THEN "back" ELSE "front back")

\* self._reindex_index()
Move_FP_reindex_index ==
    /\ pc \in {"start", "back"}
    /\ \E r \in {FP_reindex_index(self, heap[self.df_])} :
           AfterMove("_reindex_index", [raised |-> r.raised, df |-> r.val],
                     IF pc = "start" THEN "front" ELSE "back front")

\* self.df_ = reindex_target(dataframe=self.df_, target=...) of utils/design.py
Move_reindex_target ==
    /\ pc = "start"
    /\ \E r \in {reindex_target(heap[self.df_], self.target_feature)} :
           AfterMove("reindex_target", r, "returned")

\* the same call with reindex_target of utils/routines/fit.py
Move_routines_reindex_target ==
    /\ pc = "start"
    /\ \E r \in {routines_reindex_target(heap[self.df_], self.target_feature)} :
           AfterMove("routines.reindex_target", r, "returned")

NextMove ==
    \/ Move_FP_reindex_target
    \/ Move_FP_reindex_index
    \/ Move_reindex_target
    \/ Move_routines_reindex_target

SpecMove == InitMove /\ [][NextMove]_vars

(***************************************************************************)
(* Properties of the column moves.                                         *)
(***************************************************************************)
MovedBack == call.fn \in {"_reindex_target", "reindex_target", "routines.reindex_target"}
MovedFront == call.fn = "_reindex_index"

\* the two tables hold the same columns, each with the same entries
SameColumns(before, after) ==
    /\ ToSet(columns(after)) = ToSet(columns(before))
    /\ Len(after) = Len(before)
    /\ \A name \in ToSet(columns(before)) : loc(after, name) = loc(before, name)

\* the names of a list other than the given ones, in the order of the list
Others(features, names) == SelectSeq(features, LAMBDA f : f \notin names)

\* C14: moving a column the table has to the back (reindex_target,
\* _reindex_target) or to the front (_reindex_index) returns a table of the
\* same columns with the same entries, the moved column last (first) and
\* the other columns in their former relative order.
C14_MoveKeepsColumnsAndOrder ==
    /\ MovedBack /\ InList(self.target_feature, columns(call.before)) =>
           /\ call.raised = "none"
           /\ SameColumns(call.before, heap[self.df_])
           /\ columns(heap[self.df_]) =
                  Others(columns(call.before), {self.target_feature})
                      \o <<self.target_feature>>
    /\ MovedFront /\ InList(self.index_feature, columns(call.before)) =>
           /\ call.raised = "none"
           /\ SameColumns(call.before, heap[self.df_])
           /\ columns(heap[self.df_]) =
                  <<self.index_feature>>
                      \o Others(columns(call.before), {self.index_feature})

\* a target that stood first of three or more columns was moved last, and
\* an index feature that stood last was moved first
C14_Witness ==
    \/ /\ MovedBack /\ call.raised = "none" /\ Len(call.before) >= 3
       /\ first_column(call.before) = self.target_feature
       /\ last_column(heap[self.df_]) = self.target_feature
    \/ /\ MovedFront /\ call.raised = "none" /\ Len(call.before) >= 3
       /\ last_column(call.before) = self.index_feature
       /\ first_column(heap[self.df_]) = self.index_feature

\* C15: a move of a name the table does not have returns the table
\* unchanged and raises nothing.
C15_MoveOfAbsentNameIsNoOp ==
    /\ MovedBack /\ ~InList(self.target_feature, columns(call.before)) =>
           call.raised = "none" /\ heap[self.df_] = call.before
    /\ MovedFront /\ ~InList(self.index_feature, columns(call.before)) =>
           call.raised = "none" /\ heap[self.df_] = call.before

\* the table the two moves yield from the input when made in the other order
OtherOrder ==
    IF pc = "back front"
    THEN FP_reindex_target(self, FP_reindex_index(self, input).val).val
    ELSE FP_reindex_index(self, FP_reindex_target(self, input).val).val

\* C16: for an index feature and a target both in the table, target last
\* then index first yields the table that index first then target last
\* yields: the index feature first, the target last, the other columns in
\* their original relative order.
C16_MovesCommute ==
    pc \in {"back front", "front back"} =>
        /\ heap[self.df_] = OtherOrder
        /\ columns(heap[self.df_]) =
               <<self.index_feature>>
                   \o Others(columns(input), {self.index_feature, self.target_feature})
                   \o <<self.target_feature>>

\* both moves were made on a table whose first column is the target and
\* whose last column is the index feature, with two columns between them
C16_Witness ==
    /\ pc \in {"back front", "front back"}
    /\ Len(input) >= 4
    /\ first_column(input) = self.target_feature
    /\ last_column(input) = self.index_feature

(***************************************************************************)
(* Properties of FeaturePreprocessor.transform.                            *)
(***************************************************************************)
TransformCalled == call.fn = "transform"

\* C11: transform on an object on which fit has never completed raises and
\* leaves the object and its tables as they were; transform returns only
\* when fit has completed.
C11_TransformBeforeFitRejected ==
    TransformCalled /\ call.before.self.is_fitted_ # "True" =>
        /\ call.raised # "none"
        /\ self = call.before.self
        /\ heap = call.before.heap

\* C12: transform after fit returns, and the table it produced
\* (treated_df_) has index_feature as its first column when one is set and
\* target_feature as its last column when one is set.
C12_TransformOutputOrdered ==
    TransformCalled /\ call.before.self.is_fitted_ = "True" =>
        /\ call.raised = "none"
        /\ self.index_feature # None =>
               first_column(heap[self.treated_df_]) = self.index_feature
        /\ self.target_feature # None =>
               last_column(heap[self.treated_df_]) = self.target_feature

\* C13: when a target is configured, the table fit stores (df_) has the
\* target as its last column, wherever the target stood in the input.
C13_FitStoresTargetLast ==
    Fitted /\ self.target_feature # None =>
        last_column(heap[self.df_]) = self.target_feature

(***************************************************************************)
(* SpecCast: the float-to-int step of fit applied to an object that holds  *)
(* its bucket lists and hidden numerics, as fit has set them by then.      *)
(***************************************************************************)
\* the column "c", a float column or a text column, alone or after the
\* float column "u"
CastTables ==
    UNION {
        {<<c>> : c \in
            {Column("c", "float64", v) : v \in [1..n -> {FloatC(2), FloatC(3), NaN}]}
            \cup {Column("c", "object", v) : v \in [1..n -> {s_1, s_1_5, NaN}]}}
        \cup {<<PoolColumn("u", n), Column("c", "float64", v)>> :
                 v \in [1..n -> {FloatC(2), FloatC(3), NaN}]}
        : n \in 1..MaxRows}

\* the FeaturePreprocessor as fit has it before the float-to-int step
CastReady(kw, df) ==
    With(store_dtypes(FeaturePreprocessor(kw), FP_get_dtypes(kw, df).val), LAMBDA obj :
        With(IF kw.find_hidden_numerics THEN FP_find_hidden_numerics(obj, df)
             ELSE [hidden_ints |-> <<>>, hidden_floats |-> <<>>], LAMBDA r :
            [obj EXCEPT !.is_fitted_ = "False",
                        !.hidden_ints_ = r.hidden_ints,
                        !.hidden_floats_ = r.hidden_floats]))

CastObjects(df) ==
    {CastReady([FPDefaults EXCEPT !.numerical_fill_value = nfv,
                                  !.floats_to_ints = f2i,
                                  !.find_hidden_numerics = hn], df) :
        nfv \in FillValues, f2i \in BOOLEAN, hn \in BOOLEAN}
    \cup {TreatmentDesign(DesignDefaults)}

InitCast ==
    \E df \in CastTables :
        \E obj \in CastObjects(df) :
            /\ heap = <<df>>
            /\ input = df
            /\ self = [obj EXCEPT !.df_ = 1]
            /\ pc = "start"
            /\ call = NoCall

\* the float-to-int step of FeaturePreprocessor.fit: the integer castables
\* when floats_to_ints is True, the empty list otherwise
Cast_FP_cast_to_int ==
    /\ pc = "start"
    /\ self.cls = "FeaturePreprocessor"
    /\ self' = [self EXCEPT !.integer_castables_ =
                    IF self.floats_to_ints THEN FP_cast_to_int(self, heap[self.df_])
                    ELSE <<>>]
    /\ call' = Stage("_cast_to_int", heap[self.df_], "none")
    /\ pc' = "returned"
    /\ UNCHANGED <<heap, input>>

\* self.df_ = cast_to_int(dataframe=self.df_, treatment_features=...) of
\* utils/design.py, all columns being treatment features
Cast_cast_to_int ==
    /\ pc = "start"
    /\ self.cls = "TreatmentDesign"
    /\ \E r \in {cast_to_int(heap[self.df_], columns(heap[self.df_]))} :
           /\ heap' = [heap EXCEPT ![self.df_] = r.df]
           /\ call' = Stage("cast_to_int", heap[self.df_], r.raised)
           /\ pc' = After(r.raised, "returned")
    /\ UNCHANGED <<self, input>>

NextCast == Cast_FP_cast_to_int \/ Cast_cast_to_int

SpecCast == InitCast /\ [][NextCast]_vars

\* the entry, or the fill value in place of a missing entry, is a float with
\* no fractional part (floats are counted in halves)
IntegralWhenFilled(x, value) ==
    IF isnull(x) THEN value.n % 2 = 0 ELSE x.t = "float" /\ x.n % 2 = 0

\* C20: the float-to-int check of fit yields exactly the float columns all
\* of whose entries, missing ones replaced by numerical_fill_value, have no
\* fractional part; with floats_to_ints off it yields the empty list.
C20_CastablesExact ==
    call.fn = "_cast_to_int" =>
        IF ~self.floats_to_ints THEN self.integer_castables_ = <<>>
        ELSE self.integer_castables_ =
                 SelectSeq(self.float_features_, LAMBDA f :
                     \A j \in DOMAIN loc(call.before, f).vals :
                         IntegralWhenFilled(loc(call.before, f).vals[j],
                                            self.numerical_fill_value))

====

